---- MODULE Spec2Model ----
(***************************************************************************)
(* A model of the FIVB monitor's ingestion engine (src/fivb_scraper.py):   *)
(* the retrying transport HttpClient.get_xml, the request budget           *)
(* FIVBService._track, the fetch_* steps, the orchestrator FIVBService.run *)
(* and the status merge dedupe_teams.                                      *)
(*                                                                         *)
(* Specifications:                                                         *)
(*   SpecHttp    one HttpClient whose get_xml is called directly            *)
(*   Spec        one FIVBService whose fetch_* methods and run are called   *)
(*   SpecRuns    one FIVBService on which only run is called, repeatedly    *)
(*   SpecLive    one run on a fresh FIVBService, with the thread of control *)
(*               scheduled fairly                                          *)
(*   SpecDedupe  dedupe_teams applied to bounded input lists                *)
(*   SpecParse   parse_event_list and parse_event_tournaments on bounded    *)
(*               roots                                                      *)
(*   SpecStore   Storage.persist_snapshots (src/db_store.py) called on one  *)
(*               database, repeatedly                                       *)
(*   SpecApi     the endpoint api_tcode_withdrawals (src/api.py)            *)
(***************************************************************************)
EXTENDS Integers, Sequences, FiniteSets, TLC

VARIABLES
    max_attempts,          \* HttpClient.max_attempts
    max_requests_per_run,  \* FIVBService.max_requests_per_run
    _request_count,        \* FIVBService._request_count
    op,                    \* the method the caller has invoked, "idle" when none
    pc,                    \* position of the single thread of control
    result,                \* what the invoked method returned or raised
    req,                   \* get_xml: the logical request (url) it works on
    attempt,               \* get_xml: loop variable
    last_exc,              \* get_xml: last_exc
    resp,                  \* get_xml: response of the latest session.get
    xml_result,            \* get_xml: what it returned or raised
    trace,                 \* get_xml: log records and sleeps of the current call
    events,                \* run: events
    ev_idx,                \* run: index of ev in events
    event_no,              \* fetch_event_tournaments: event_no
    tournaments,           \* run: tournaments
    t_idx,                 \* run: index of tref in tournaments
    tournament_no,         \* fetch_teams_for_tournament: tournament_no
    s_idx,                 \* fetch_teams_for_tournament: index of status
    all_teams,             \* fetch_teams_for_tournament: all_teams
    teams_by_tournament,   \* run: teams_by_tournament
    snapshots,             \* run: snapshots
    track_calls,           \* history: number of _track calls on the service
    track_fails,           \* history: how many of them raised
    get_xml_calls,         \* history: number of get_xml calls the service has made
    issued,                \* history: the get_xml calls of the invoked method
    detail_ok,             \* history: events whose fetch_event_tournaments returned
    budget_hit,            \* history: the first _track of the invoked method that raised
    failed,                \* history: the get_xml calls of the invoked method that raised
    answered,              \* history: those that returned, each with its document
    team_list,             \* dedupe_teams: its argument
    deduped,               \* dedupe_teams: its return value
    parse_root,            \* parse_event_list, parse_event_tournaments: root
    refs,                  \* parse_event_tournaments: refs
    strategies,            \* history: the strategies parse_event_tournaments applied
    tables,                \* the database: the committed rows of its tables
    cur,                   \* persist_snapshots: the rows as its transaction has them
    con,                   \* persist_snapshots: the connection: none, open or closed
    persist_arg,           \* persist_snapshots: snapshots and run_date
    run_id,                \* persist_snapshots: run_id
    p_idx,                 \* persist_snapshots: position of "for snap in snapshots"
    todo,                  \* persist_snapshots: the teams of the snapshot still to store
    before,                \* history: the database when persist_snapshots was called
    past,                  \* history: the calls of persist_snapshots that ended
    tcode,                 \* api_tcode_withdrawals: tcode
    queries,               \* history: the queries api_tcode_withdrawals has made
    response               \* api_tcode_withdrawals: the answer of the endpoint

cfgVars == <<max_attempts, max_requests_per_run>>
callVars == <<op, pc, result>>
httpVars == <<req, attempt, last_exc, resp, xml_result, trace>>
svcVars == <<_request_count, track_calls, track_fails, get_xml_calls>>
runVars == <<events, ev_idx, event_no, tournaments, t_idx, tournament_no, s_idx,
             all_teams, teams_by_tournament, snapshots>>
histVars == <<issued, detail_ok, budget_hit, failed, answered>>
ddVars == <<team_list, deduped>>
parseVars == <<parse_root, refs, strategies>>
dbVars == <<tables, cur, con, persist_arg, run_id, p_idx, todo, before, past>>
apiVars == <<tcode, queries, response>>
sideVars == <<parseVars, dbVars, apiVars>>

vars == <<cfgVars, callVars, httpVars, svcVars, runVars, histVars, ddVars, sideVars>>

-----------------------------------------------------------------------------
(* Bounds of the model *)

\* largest max_attempts an HttpClient is constructed with
MaxAttempts == 3
\* longest response body, in tokens
MaxText == 2
\* longest list handed to dedupe_teams
MaxTeams == 3
\* largest max_attempts of the HttpClient of a FIVBService
MaxServiceAttempts == 2
\* largest max_requests_per_run a FIVBService is constructed with
MaxCeiling == 10
\* no method is invoked once _request_count has reached this
MaxCount == 11
\* most Content elements, and most Content attributes, of a GetEvent response
MaxContents == 2
\* most Event nodes of a response handed to parse_event_list
MaxEventNodes == 2
\* largest ceiling of the service whose run is followed to its end
MaxLiveCeiling == 6
\* most calls of persist_snapshots on one database
MaxSubmissions == 2
\* longest tcode handed to the endpoint, in characters
MaxTcode == 7

-----------------------------------------------------------------------------
(* BeachTeam and dedupe_teams *)

\* Optional[int]: an absent player number, rank or country code
None == -1

\* STATUSES_TO_FETCH without Deleted
STATUSES_TO_FETCH_ThreeOnly == <<"Registered", "Withdrawn", "WithdrawnWithMedicalCert">>

\* STATUSES_TO_FETCH with Withdrawn ahead of Registered
STATUSES_TO_FETCH_WithdrawnFirst ==
    <<"Withdrawn", "Registered", "WithdrawnWithMedicalCert", "Deleted">>

STATUSES_TO_FETCH == <<"Registered", "Withdrawn", "WithdrawnWithMedicalCert", "Deleted">>

StatusSet == {STATUSES_TO_FETCH[i] : i \in 1..Len(STATUSES_TO_FETCH)}

BeachTeam(p1, p2, name, rank, status, cc) ==
    [no_player1 |-> p1, no_player2 |-> p2, name |-> name, rank |-> rank,
     status |-> status, country_code |-> cc]

\* the priority dict without its "Deleted" entry
PriorityNoDeleted(status) ==
    CASE status = "WithdrawnWithMedicalCert" -> 2
      [] status = "Withdrawn" -> 1
      [] status = "Registered" -> 0
      [] OTHER -> 0

\* priority.get(status, 0)
Priority(status) ==
    CASE status = "Deleted" -> 3
      [] status = "WithdrawnWithMedicalCert" -> 2
      [] status = "Withdrawn" -> 1
      [] status = "Registered" -> 0
      [] OTHER -> 0

\* the key built from the first player alone
KeyOfPlayer1(t) == <<t.no_player1, t.no_player1>>

\* one key for every team
KeyOfAnyTeam(t) == <<None, None>>

\* key = (t.no_player1, t.no_player2)
KeyOf(t) == <<t.no_player1, t.no_player2>>

\* by_key is a dict: its entries in insertion order; 0 when key is not in it
IndexOfKey(by_key, key) ==
    IF \E i \in 1..Len(by_key) : by_key[i].key = key
        THEN CHOOSE i \in 1..Len(by_key) : by_key[i].key = key
        ELSE 0

\* DedupeStep entering every team under a key of its own
DedupeStepKeepsAll(by_key, t) ==
    Append(by_key, [key |-> <<Len(by_key)>>, team |-> t])

\* DedupeStep replacing the entry also on equal priority
DedupeStepReplacesOnEqual(by_key, t) ==
    LET key == KeyOf(t)
        i == IndexOfKey(by_key, key)
    IN  IF i = 0
            THEN Append(by_key, [key |-> key, team |-> t])
        ELSE IF Priority(t.status) >= Priority(by_key[i].team.status)
            THEN [by_key EXCEPT ![i].team = t]
        ELSE by_key

\* one iteration of the loop over team_list
DedupeStep(by_key, t) ==
    LET key == KeyOf(t)
        i == IndexOfKey(by_key, key)
    IN  IF i = 0
            THEN Append(by_key, [key |-> key, team |-> t])
        ELSE IF Priority(t.status) > Priority(by_key[i].team.status)
            THEN [by_key EXCEPT ![i].team = t]
        ELSE by_key

RECURSIVE DedupeLoop(_, _)
DedupeLoop(by_key, rest) ==
    IF rest = <<>> THEN by_key
    ELSE DedupeLoop(DedupeStep(by_key, Head(rest)), Tail(rest))

\* list(by_key.values())
dedupe_teams(teams) ==
    LET by_key == DedupeLoop(<<>>, teams)
    IN  [i \in 1..Len(by_key) |-> by_key[i].team]

-----------------------------------------------------------------------------
(* Exceptions and responses *)

NoExc == [type |-> "None", why |-> "None"]

\* requests.RequestException(msg)
RequestException(why) == [type |-> "RequestException", why |-> why]

\* what session.get itself may raise
TransportErrors == {"RequestException", "IndexError"}

\* A response body is a sequence of tokens: " " is whitespace, "d" a complete
\* root element, "x" text that is not markup of a document.
Tokens == {" ", "d", "x"}

RECURSIVE TextsOfLen(_)
TextsOfLen(n) ==
    IF n = 0 THEN {<<>>}
    ELSE {Append(t, c) : t \in TextsOfLen(n - 1), c \in Tokens}

Texts == UNION {TextsOfLen(n) : n \in 0..MaxText}

\* str.strip(): leading and trailing whitespace removed
RECURSIVE LStrip(_)
LStrip(t) == IF t # <<>> /\ Head(t) = " " THEN LStrip(Tail(t)) ELSE t

RECURSIVE RStrip(_)
RStrip(t) ==
    IF t # <<>> /\ t[Len(t)] = " " THEN RStrip(SubSeq(t, 1, Len(t) - 1)) ELSE t

Strip(t) == RStrip(LStrip(t))

\* ET.fromstring(text) succeeds exactly on one root element, which white
\* space may surround; anything else is an ET.ParseError
ParsesAsXml(t) == Strip(t) = <<"d">>

NoDoc == <<>>

\* what a call has come to: it returned a value, raised, or is not over
Returned(v) == [ok |-> TRUE, value |-> v, exc |-> NoExc]
Raised(e)   == [ok |-> FALSE, value |-> NoDoc, exc |-> e]
NoResult    == [ok |-> FALSE, value |-> NoDoc, exc |-> NoExc]
NoResp == [exc |-> "none", status |-> 0, text |-> <<>>, doc |-> NoDoc]

\* the body of a response that carries a document
GoodText == <<"d">>

Response(e, s, t, d) == [exc |-> e, status |-> s, text |-> t, doc |-> d]

Statuses == {200, 500}

\* what one session.get may do for a bare get_xml call: raise, or deliver a
\* status and a body; the document a body holds is given with it
RawDocs == {<<>>, <<[No |-> 1]>>}

RawResponses ==
    {Response(e, 0, <<>>, NoDoc) : e \in TransportErrors}
    \cup UNION {
        {Response("none", s, t, d) :
            d \in (IF ParsesAsXml(t) THEN RawDocs ELSE {NoDoc})}
        : s \in Statuses, t \in Texts}

-----------------------------------------------------------------------------
(* Records of the data model and the documents of the upstream service *)

\* Event; dates are day numbers, code, name and end_date are carried along
\* by the engine and left out
Event(no, start) == [no |-> no, start_date |-> start]

BeachTournamentRef(no, gender) == [tournament_no |-> no, gender |-> gender]

EventTeamsSnapshot(ev, ts, tbt) ==
    [event |-> ev, tournaments |-> ts, teams_by_tournament |-> tbt]

\* teams_by_tournament[no] = teams
DictSet(d, no, teams) ==
    [k \in DOMAIN d \cup {no} |-> IF k = no THEN teams ELSE d[k]]

EmptyDict == <<>>

\* _today(tz), as a day number
Today == 0

\* window_days: int = 28
window_days == 28

\* The text of an attribute, as far as the parsers tell texts apart: the
\* decimal digits of n, the date of day n written YYYY-MM-DD, text that is
\* neither, the empty text, and no attribute at all.
Digits(n) == [text |-> "digits", n |-> n]
IsoDate(d) == [text |-> "date", n |-> d]
Garbage == [text |-> "garbage", n |-> 0]
Empty == [text |-> "empty", n |-> 0]
Absent == [text |-> "absent", n |-> 0]

\* <Event No= StartDate= EndDate= /> of a GetEventList response
RawEventNode(no, start, end) == [No |-> no, StartDate |-> start, EndDate |-> end]

\* an Event node with valid fields
EventNode(no, start) == RawEventNode(Digits(no), IsoDate(start), IsoDate(start))

\* <BeachTournament No= Gender= />; Gender is "None" when the node has none
RawTournamentNode(no, gender) == [No |-> no, Gender |-> gender]

\* a BeachTournament node with a valid number
TournamentNode(no, gender) == RawTournamentNode(Digits(no), gender)

\* a piece of text that may hold an embedded document: the text of a
\* Content element or the value of a Content attribute, with the
\* BeachTournament nodes of the document when the text is one
Embedded(text, nodes) == [text |-> text, nodes |-> nodes]

\* The root of a GetEvent response: the BeachTournament nodes inside its
\* Event nodes, the texts of its Content elements and the values of its
\* Content attributes, each in document order.
EventRoot(direct, contents, attrs) ==
    [direct |-> direct, contents |-> contents, attrs |-> attrs]

\* a response that holds its BeachTournament nodes inside the Event node
DirectRoot(nodes) == EventRoot(nodes, <<>>, <<>>)

\* <BeachTeam NoPlayer1= NoPlayer2= Name= /> of a GetBeachTeamList response
TeamNode(p1, p2, name) == [NoPlayer1 |-> p1, NoPlayer2 |-> p2, Name |-> name]

\* ValueError of int() and of datetime.strptime
ValueError == [type |-> "ValueError", why |-> "invalid literal or date"]

\* int(text) does not raise; a missing No is read as "0"
IsInt(raw) == raw.text \in {"digits", "absent"}
IntOf(raw) == IF raw.text = "digits" THEN raw.n ELSE 0

\* "if not s": the text is missing or empty
NoText(raw) == raw.text \in {"empty", "absent"}

\* _parse_date_yyyy_mm_dd(text) does not raise
IsDate(raw) == raw.text = "date"

\* parse_event_list, the loop over the Event nodes: a node with a
\* non-numeric No or without a date is skipped, a date that does not parse
\* raises out of the function
RECURSIVE ParseEvents(_, _)
ParseEvents(nodes, evs) ==
    IF nodes = <<>> THEN Returned(evs)
    ELSE LET ev == Head(nodes) IN
         IF ~IsInt(ev.No) THEN ParseEvents(Tail(nodes), evs)
         ELSE IF NoText(ev.StartDate) \/ NoText(ev.EndDate)
            THEN ParseEvents(Tail(nodes), evs)
         ELSE IF ~IsDate(ev.StartDate) \/ ~IsDate(ev.EndDate)
            THEN Raised(ValueError)
         ELSE ParseEvents(Tail(nodes),
                          Append(evs, Event(IntOf(ev.No), ev.StartDate.n)))

\* parse_event_list(root): the events, or the exception raised
parse_event_list(root) == ParseEvents(root, <<>>)

\* DecodeGender without the pass-through of other raw values
DecodeGenderKnownOnly(raw) ==
    CASE raw = "0" -> "M"
      [] raw = "1" -> "W"
      [] OTHER -> "None"

\* gender_map.get(gender_raw, gender_raw)
DecodeGender(raw) ==
    CASE raw = "0" -> "M"
      [] raw = "1" -> "W"
      [] OTHER -> raw

\* _collect_from_event_node: a record for every BeachTournament node whose
\* No is a number
Collect(nodes) ==
    LET Numbered(bt) == IsInt(bt.No)
        kept == SelectSeq(nodes, Numbered)
    IN  [i \in 1..Len(kept) |->
            BeachTournamentRef(IntOf(kept[i].No), DecodeGender(kept[i].Gender))]

\* CollectEmbedded parsing the text as it stands, white space included
CollectEmbeddedUnstripped(e) ==
    IF Strip(e.text) = <<>> THEN <<>>
    ELSE IF e.text # <<"d">> THEN <<>>
    ELSE Collect(e.nodes)

\* one Content text or attribute: blank text is skipped, an ET.ParseError
\* is swallowed, a document has its records collected
CollectEmbedded(e) ==
    IF Strip(e.text) = <<>> THEN <<>>
    ELSE IF ~ParsesAsXml(e.text) THEN <<>>
    ELSE Collect(e.nodes)

\* CollectAllEmbedded giving up at the first text that is no document
RECURSIVE CollectAllEmbeddedUntilMalformed(_)
CollectAllEmbeddedUntilMalformed(es) ==
    IF es = <<>> THEN <<>>
    ELSE IF Strip(Head(es).text) # <<>> /\ ~ParsesAsXml(Head(es).text) THEN <<>>
    ELSE CollectEmbedded(Head(es)) \o CollectAllEmbeddedUntilMalformed(Tail(es))

RECURSIVE CollectAllEmbedded(_)
CollectAllEmbedded(es) ==
    IF es = <<>> THEN <<>>
    ELSE CollectEmbedded(Head(es)) \o CollectAllEmbedded(Tail(es))

\* the three strategies of parse_event_tournaments
DirectRefs(root) == Collect(root.direct)
ContentTextRefs(root) == CollectAllEmbedded(root.contents)
ContentAttrRefs(root) == CollectAllEmbedded(root.attrs)

\* parse_event_tournaments(root)
parse_event_tournaments(root) ==
    IF DirectRefs(root) # <<>> THEN DirectRefs(root)
    ELSE IF ContentTextRefs(root) # <<>> THEN ContentTextRefs(root)
    ELSE ContentAttrRefs(root)

\* parse_teams giving every team the status Registered
parse_teams_as_registered(root, status) ==
    [i \in 1..Len(root) |->
        BeachTeam(root[i].NoPlayer1, root[i].NoPlayer2, root[i].Name, None,
                  "Registered", None)]

\* parse_teams(root, status)
parse_teams(root, status) ==
    [i \in 1..Len(root) |->
        BeachTeam(root[i].NoPlayer1, root[i].NoPlayer2, root[i].Name, None,
                  status, None)]

\* InWindow with the end of the window left out
InWindowExclusiveEnd(ev, today, days) ==
    ev.start_date >= today /\ ev.start_date < today + days

\* ev.start_date >= today and ev.start_date <= future_window_end
InWindow(ev, today, days) ==
    ev.start_date >= today /\ ev.start_date <= today + days

\* selected = [ev for ev in all_events if ...]
SelectUpcoming(all_events, today, days) ==
    LET Keep(ev) == InWindow(ev, today, days)
    IN  SelectSeq(all_events, Keep)

\* The event lists the service answers GetEventList with: events 1 and 2
\* start inside the window, event 3 after it and event 4 before it; the last
\* list has a start date on each side of each end of the window.
EventListDocs ==
    {<<>>,
     <<EventNode(1, 10)>>,
     <<EventNode(4, Today - 1), EventNode(1, Today), EventNode(2, Today + window_days),
       EventNode(3, Today + window_days + 1)>>}

\* The tournaments the service answers GetEvent with: event 1 has up to two
\* tournaments, any other event up to one.
EventDocs(no) ==
    IF no = 1
        THEN {DirectRoot(<<>>),
              DirectRoot(<<TournamentNode(11, "M")>>),
              DirectRoot(<<TournamentNode(11, "0"), TournamentNode(12, "1")>>)}
        ELSE {DirectRoot(<<>>), DirectRoot(<<TournamentNode(21, "W")>>)}

\* The teams the service answers GetBeachTeamList with: team a (players 1
\* and 2) may be listed as Registered or Withdrawn, and in tournament 11 as
\* Deleted; team b (players 3 and 4) as Withdrawn, alone or ahead of team a.
TeamListDocs(no, status) ==
    {<<>>}
    \cup (IF status \in {"Registered", "Withdrawn"}
            THEN {<<TeamNode(1, 2, "a")>>} ELSE {})
    \cup (IF status = "Withdrawn"
            THEN {<<TeamNode(3, 4, "b")>>,
                  <<TeamNode(3, 4, "b"), TeamNode(1, 2, "a")>>}
            ELSE {})
    \cup (IF status = "Deleted" /\ no = 11
            THEN {<<TeamNode(1, 2, "a")>>} ELSE {})

\* q_get_event_list, q_get_event, q_get_beach_team_list: the url of a request
Request(kind, no, status) == [kind |-> kind, no |-> no, status |-> status]
RawRequest == Request("raw", 0, "None")
NoRequest == Request("none", 0, "None")

DocsFor(r) ==
    CASE r.kind = "list" -> EventListDocs
      [] r.kind = "detail" -> EventDocs(r.no)
      [] r.kind = "teams" -> TeamListDocs(r.no, r.status)
      [] OTHER -> RawDocs

\* what one session.get may do for a request of the service: raise, answer
\* with an error status, or deliver a document
ServiceResponses(r) ==
    {Response(e, 0, <<>>, NoDoc) : e \in TransportErrors}
    \cup {Response("none", 500, GoodText, NoDoc)}
    \cup {Response("none", 200, GoodText, d) : d \in DocsFor(r)}

Responses(r) == IF r.kind = "raw" THEN RawResponses ELSE ServiceResponses(r)

-----------------------------------------------------------------------------
(* HttpClient.get_xml *)

\* TryAttempt without the check of the status code
TryAttemptAnyStatus(r) ==
    IF r.exc # "none"
        THEN Raised([type |-> r.exc, why |-> "transport"])
    ELSE IF Strip(r.text) = <<>>
        THEN Raised(RequestException("bad status or empty body"))
    ELSE IF ~ParsesAsXml(r.text)
        THEN Raised(RequestException("XML parse error"))
    ELSE Returned(r.doc)

\* the body of the try block: either a root element or the exception raised
TryAttempt(r) ==
    IF r.exc # "none"
        THEN Raised([type |-> r.exc, why |-> "transport"])
    ELSE IF r.status # 200 \/ Strip(r.text) = <<>>
        THEN Raised(RequestException("bad status or empty body"))
    ELSE IF ~ParsesAsXml(r.text)
        THEN Raised(RequestException("XML parse error"))
    ELSE Returned(r.doc)

\* RecordExc keeping the first exception of the call
RecordFirstExc(prev, exc) == IF prev = NoExc THEN exc ELSE prev

\* last_exc = exc
RecordExc(prev, exc) == exc

\* WaitsAfter sleeping after the last attempt too
WaitsAfterEvery(a, m) == a <= m

\* if attempt < self.max_attempts: ... time.sleep(...)
WaitsAfter(a, m) == a < m

\* HasNextAttempt with the range one too long
HasNextAttemptOneMore(a, m) == a + 1 <= m + 1

\* for attempt in range(1, self.max_attempts + 1): is there a next iteration
HasNextAttempt(a, m) == a + 1 <= m

LogEntry(ev, exc) == [ev |-> ev, exc |-> exc]

\* get_xml(url) is entered: last_exc = None, the loop starts at attempt 1
EnterGetXml(r) ==
    /\ req' = r
    /\ attempt' = 1
    /\ last_exc' = NoExc
    /\ resp' = NoResp
    /\ xml_result' = NoResult
    /\ trace' = <<>>

\* the for loop moves on after a failed attempt: next attempt, or the loop
\* is over and last_exc is raised
LoopOn ==
    IF HasNextAttempt(attempt, max_attempts)
        THEN /\ attempt' = attempt + 1
             /\ pc' = "gx_try"
             /\ xml_result' = xml_result
        ELSE /\ attempt' = attempt
             /\ pc' = "gx_done"
             /\ xml_result' = Raised(last_exc')

\* one attempt: session.get, the checks on the response, and the except
\* branch up to the decision to sleep
Attempt ==
    /\ pc = "gx_try"
    /\ \E r \in Responses(req) :
        LET out == TryAttempt(r) IN
        /\ resp' = r
        /\ IF out.ok
            THEN /\ xml_result' = out
                 /\ pc' = "gx_done"
                 /\ trace' = Append(trace, LogEntry("ok", NoExc))
                 /\ UNCHANGED <<attempt, last_exc>>
            ELSE /\ last_exc' = RecordExc(last_exc, out.exc)
                 /\ trace' = Append(trace, LogEntry("fail", out.exc))
                 /\ IF WaitsAfter(attempt, max_attempts)
                     THEN /\ pc' = "gx_sleep"
                          /\ UNCHANGED <<attempt, xml_result>>
                     ELSE LoopOn
    /\ UNCHANGED <<cfgVars, op, result, req, svcVars, runVars, histVars, ddVars, sideVars>>

\* Sleep that does not return
SleepsOn ==
    /\ pc = "gx_sleep"
    /\ UNCHANGED vars

\* time.sleep(self.retry_wait_seconds) returns and the loop moves on
Sleep ==
    /\ pc = "gx_sleep"
    /\ trace' = Append(trace, LogEntry("wait", NoExc))
    /\ last_exc' = last_exc
    /\ LoopOn
    /\ UNCHANGED <<cfgVars, op, result, req, resp, svcVars, runVars, histVars,
                   ddVars, sideVars>>


-----------------------------------------------------------------------------
(* SpecDedupe: dedupe_teams applied to a list of teams *)

\* the player pairs of the teams handed to dedupe_teams
DedupePairs == {<<1, 2>>, <<2, 1>>, <<None, 1>>, <<None, None>>}

\* one record per pair and status, and a second record of another name for
\* the pair (1, 2)
DedupeTeams ==
    {BeachTeam(p[1], p[2], "a", None, s, None) : p \in DedupePairs, s \in StatusSet}
    \cup {BeachTeam(1, 2, "b", None, s, None) : s \in StatusSet}

\* deduped = dedupe_teams(team_list)
Dedupe ==
    /\ pc = "dd_call"
    /\ deduped' = dedupe_teams(team_list)
    /\ pc' = "dd_done"
    /\ UNCHANGED <<cfgVars, op, result, httpVars, svcVars, runVars, histVars,
                   team_list, sideVars>>

-----------------------------------------------------------------------------
(* SpecParse: parse_event_list and parse_event_tournaments applied to roots *)

\* the values of the Gender attribute, "None" for a node without one
GenderTags == {"0", "1", "M", "W", "X", "None"}

\* what the Event nodes of a GetEvent response may hold
DirectChoices ==
    {<<>>,
     <<RawTournamentNode(Garbage, "M")>>,
     <<TournamentNode(8136, "M"), RawTournamentNode(Absent, "W")>>}
    \cup {<<TournamentNode(8137, g)>> : g \in GenderTags}

\* what a Content text or attribute may hold: blank text, text that is no
\* document, a document without tournaments, and documents with tournaments
\* numbered from base
EmbeddedChoices(base) ==
    {Embedded(<<" ">>, <<>>),
     Embedded(<<"x">>, <<>>),
     Embedded(<<"d">>, <<>>),
     Embedded(<<" ", "d">>, <<TournamentNode(base + 1, "0"), TournamentNode(base, "1")>>),
     Embedded(<<"d">>, <<RawTournamentNode(Garbage, "W"), TournamentNode(base + 2, "W")>>)}

\* the Event nodes handed to parse_event_list
EventNodeChoices ==
    {EventNode(1, 10),
     EventNode(2, 20),
     RawEventNode(Absent, IsoDate(5), IsoDate(6)),
     RawEventNode(Garbage, IsoDate(10), IsoDate(10)),
     RawEventNode(Digits(3), Empty, IsoDate(10)),
     RawEventNode(Digits(4), IsoDate(10), Absent),
     RawEventNode(Digits(5), Garbage, IsoDate(10)),
     RawEventNode(Digits(6), IsoDate(10), Garbage)}

\* events = parse_event_list(root)
ParseEventList ==
    /\ pc = "pel_call"
    /\ result' = parse_event_list(parse_root)
    /\ pc' = "done"
    /\ UNCHANGED <<cfgVars, op, httpVars, svcVars, runVars, histVars, ddVars,
                   parseVars, dbVars, apiVars>>

\* ReturnOrGoOn leaving only after the last strategy
ReturnOrGoOnToTheEnd(found, next) ==
    /\ refs' = found
    /\ IF next = "done"
        THEN /\ result' = Returned(found)
             /\ pc' = "done"
        ELSE /\ result' = result
             /\ pc' = next

\* parse_event_tournaments leaves with its records when it has some, and
\* goes on to the next strategy when not
ReturnOrGoOn(found, next) ==
    /\ refs' = found
    /\ IF found # <<>> \/ next = "done"
        THEN /\ result' = Returned(found)
             /\ pc' = "done"
        ELSE /\ result' = result
             /\ pc' = next

\* 1) the BeachTournament nodes inside the Event nodes
TryDirect ==
    /\ pc = "pet_direct"
    /\ strategies' = Append(strategies, "direct")
    /\ ReturnOrGoOn(refs \o DirectRefs(parse_root), "pet_text")
    /\ UNCHANGED <<cfgVars, op, httpVars, svcVars, runVars, histVars, ddVars,
                   parse_root, dbVars, apiVars>>

\* 2) the documents in the text of the Content elements
TryContentText ==
    /\ pc = "pet_text"
    /\ strategies' = Append(strategies, "text")
    /\ ReturnOrGoOn(refs \o ContentTextRefs(parse_root), "pet_attr")
    /\ UNCHANGED <<cfgVars, op, httpVars, svcVars, runVars, histVars, ddVars,
                   parse_root, dbVars, apiVars>>

\* 3) the documents in the Content attributes
TryContentAttr ==
    /\ pc = "pet_attr"
    /\ strategies' = Append(strategies, "attr")
    /\ ReturnOrGoOn(refs \o ContentAttrRefs(parse_root), "done")
    /\ UNCHANGED <<cfgVars, op, httpVars, svcVars, runVars, histVars, ddVars,
                   parse_root, dbVars, apiVars>>

-----------------------------------------------------------------------------
(* Storage (src/db_store.py): the upsert helpers and persist_snapshots *)

\* NULL in a text column
NoName == "None"

\* the tables of the database, each a set of rows; no row yet
NoRows ==
    [crawl_run |-> {}, event |-> {}, tournament |-> {}, player |-> {},
     team |-> {}, tournament_team_snapshot |-> {}]

\* RETURNING ..._id of an inserted row: the key the table gives the row, a
\* number above the keys of the rows it holds
NextId(ids) ==
    IF ids = {} THEN 1 ELSE (CHOOSE x \in ids : \A y \in ids : y <= x) + 1

\* INSERT INTO crawl_run (run_date) ... ON CONFLICT (run_date) DO NOTHING,
\* then SELECT run_id when the row existed
upsert_crawl_run(db, date) ==
    LET found == {r \in db.crawl_run : r.run_date = date}
        id == NextId({r.run_id : r \in db.crawl_run})
    IN  IF found # {}
        THEN [db |-> db, id |-> (CHOOSE r \in found : TRUE).run_id]
        ELSE [db |-> [db EXCEPT !.crawl_run =
                        @ \cup {[run_id |-> id, run_date |-> date]}],
              id |-> id]

\* INSERT INTO event ... ON CONFLICT (fivb_event_no) DO UPDATE
upsert_event(db, ev) ==
    LET found == {r \in db.event : r.fivb_event_no = ev.no}
        id == IF found # {} THEN (CHOOSE r \in found : TRUE).event_id
              ELSE NextId({r.event_id : r \in db.event})
        row == [event_id |-> id, fivb_event_no |-> ev.no,
                start_date |-> ev.start_date]
    IN  [db |-> [db EXCEPT !.event = (@ \ found) \cup {row}], id |-> id]

\* INSERT INTO tournament ... ON CONFLICT (fivb_tournament_no) DO UPDATE
\* SET event_id = EXCLUDED.event_id,
\*     gender = COALESCE(EXCLUDED.gender, tournament.gender)
upsert_tournament(db, event_id, tref) ==
    LET gender == IF tref.gender \in {"M", "W"} THEN tref.gender ELSE NoName
        found == {r \in db.tournament : r.fivb_tournament_no = tref.tournament_no}
        old == CHOOSE r \in found : TRUE
        id == IF found # {} THEN old.tournament_id
              ELSE NextId({r.tournament_id : r \in db.tournament})
        row == [tournament_id |-> id,
                fivb_tournament_no |-> tref.tournament_no,
                event_id |-> event_id,
                gender |-> IF found # {} /\ gender = NoName
                            THEN old.gender ELSE gender]
    IN  [db |-> [db EXCEPT !.tournament = (@ \ found) \cup {row}], id |-> id]

\* INSERT INTO player (name) VALUES (%s) RETURNING player_id
insert_player(db, name) ==
    LET id == NextId({r.player_id : r \in db.player})
    IN  [db |-> [db EXCEPT !.player =
                    @ \cup {[player_id |-> id, fivb_player_no |-> None,
                             name |-> name]}],
         id |-> id]

\* upsert_player(cur, fivb_no, None): by its FIVB number when it has one
\* (ON CONFLICT (fivb_player_no) keeps the row, and its name, since
\* EXCLUDED.name is NULL); without a number and without a name the lookup
\* by name is skipped and a row is inserted
upsert_player(db, fivb_no) ==
    LET found == {r \in db.player : r.fivb_player_no = fivb_no}
        id == NextId({r.player_id : r \in db.player})
    IN  IF fivb_no # None
        THEN IF found # {}
             THEN [db |-> db, id |-> (CHOOSE r \in found : TRUE).player_id]
             ELSE [db |-> [db EXCEPT !.player =
                            @ \cup {[player_id |-> id, fivb_player_no |-> fivb_no,
                                     name |-> NoName]}],
                   id |-> id]
        ELSE insert_player(db, NoName)

\* _ensure_distinct_players: a placeholder player for the second slot when
\* both slots came out as one player
_ensure_distinct_players(db, p1_id, p2_id, fallback_name) ==
    IF p1_id # p2_id
    THEN [db |-> db, id |-> p2_id]
    ELSE insert_player(db, fallback_name)

\* INSERT INTO team ... ON CONFLICT (player1_id, player2_id) DO UPDATE
\* SET display_name = COALESCE(EXCLUDED.display_name, team.display_name),
\* with the smaller id as player1
upsert_team(db, p1_id, p2_id, display_name) ==
    LET a == IF p1_id <= p2_id THEN p1_id ELSE p2_id
        b == IF p1_id <= p2_id THEN p2_id ELSE p1_id
        found == {r \in db.team : r.player1_id = a /\ r.player2_id = b}
        old == CHOOSE r \in found : TRUE
        id == IF found # {} THEN old.team_id
              ELSE NextId({r.team_id : r \in db.team})
        row == [team_id |-> id, player1_id |-> a, player2_id |-> b,
                display_name |-> IF found # {} /\ display_name = NoName
                                  THEN old.display_name ELSE display_name]
    IN  [db |-> [db EXCEPT !.team = (@ \ found) \cup {row}], id |-> id]

\* INSERT INTO tournament_team_snapshot ...
\* ON CONFLICT (tournament_id, team_id, run_id) DO UPDATE SET status, rank
upsert_snapshot(db, tournament_id, team_id, rid, status, rank) ==
    LET found == {r \in db.tournament_team_snapshot :
                    /\ r.tournament_id = tournament_id
                    /\ r.team_id = team_id
                    /\ r.run_id = rid}
        row == [tournament_id |-> tournament_id, team_id |-> team_id,
                run_id |-> rid, status |-> status, rank |-> rank]
    IN  [db EXCEPT !.tournament_team_snapshot = (@ \ found) \cup {row}]

\* the body of "for team in teams": players, distinctness, team, snapshot
PersistTeamRows(db, t_id, team, rid) ==
    LET p1 == upsert_player(db, team.no_player1)
        p2 == upsert_player(p1.db, team.no_player2)
        fallback == IF team.name = "" THEN "Unknown" ELSE team.name
        p2d == _ensure_distinct_players(p2.db, p1.id, p2.id, fallback)
        tm == upsert_team(p2d.db, p1.id, p2d.id,
                          IF team.name = "" THEN NoName ELSE team.name)
    IN  upsert_snapshot(tm.db, t_id, tm.id, rid, team.status, team.rank)

\* "for tref in snap.tournaments": the rows and tourn_id_map
RECURSIVE UpsertTournaments(_, _, _, _)
UpsertTournaments(db, event_id, trefs, tourn_id_map) ==
    IF trefs = <<>> THEN [db |-> db, map |-> tourn_id_map]
    ELSE LET t == upsert_tournament(db, event_id, Head(trefs))
         IN  UpsertTournaments(t.db, event_id, Tail(trefs),
                               DictSet(tourn_id_map, Head(trefs).tournament_no, t.id))

\* the keys of a dict in the order of items(); the dicts of the model have
\* their keys inserted in increasing order
RECURSIVE KeysInOrder(_)
KeysInOrder(keys) ==
    IF keys = {} THEN <<>>
    ELSE LET k == CHOOSE x \in keys : \A y \in keys : x <= y
         IN  <<k>> \o KeysInOrder(keys \ {k})

\* "for t_no, teams in snap.teams_by_tournament.items()", the tournaments
\* without an id in tourn_id_map skipped: the teams to store, each with the
\* id of its tournament
RECURSIVE TeamsToStore(_, _, _)
TeamsToStore(tbt, keys, tourn_id_map) ==
    IF keys = <<>> THEN <<>>
    ELSE (IF Head(keys) \in DOMAIN tourn_id_map
            THEN [i \in 1..Len(tbt[Head(keys)]) |->
                    [t_id |-> tourn_id_map[Head(keys)], team |-> tbt[Head(keys)][i]]]
            ELSE <<>>)
         \o TeamsToStore(tbt, Tail(keys), tourn_id_map)

\* psycopg2.Error out of connect, execute or commit
DbError == [type |-> "psycopg2.Error", why |-> "statement failed"]

\* the arguments of persist_snapshots
PersistArg(snaps, date) == [snapshots |-> snaps, run_date |-> date]

OneTeamSnapshot(ev_no, t_no, gender, teams) ==
    EventTeamsSnapshot(Event(ev_no, Today), <<BeachTournamentRef(t_no, gender)>>,
                       DictSet(EmptyDict, t_no, teams))

StoredTeam(p1, p2, name, status) == BeachTeam(p1, p2, name, None, status, None)

\* the batches submitted: none, one team, the two orders of one pair under
\* two statuses next to a tournament without teams, a team without player
\* numbers, a team with one number twice, teams of a tournament that is not
\* listed, and two events
StoreBatches ==
    {<<>>,
     <<OneTeamSnapshot(1, 11, "M", <<StoredTeam(1, 2, "a", "Registered")>>)>>,
     <<EventTeamsSnapshot(Event(1, Today),
            <<BeachTournamentRef(11, "M"), BeachTournamentRef(12, "X")>>,
            DictSet(DictSet(EmptyDict, 11,
                            <<StoredTeam(1, 2, "a", "Withdrawn"),
                              StoredTeam(2, 1, "b", "Registered")>>),
                    12, <<>>))>>,
     <<OneTeamSnapshot(1, 11, "M", <<StoredTeam(None, None, "a", "Registered")>>)>>,
     <<OneTeamSnapshot(1, 11, "W", <<StoredTeam(1, 1, "a", "Registered")>>)>>,
     <<EventTeamsSnapshot(Event(1, Today), <<>>,
            DictSet(EmptyDict, 11, <<StoredTeam(1, 2, "a", "Registered")>>))>>,
     <<OneTeamSnapshot(1, 11, "M", <<StoredTeam(1, 2, "a", "Registered")>>),
       OneTeamSnapshot(2, 21, "W", <<StoredTeam(3, None, "", "Withdrawn")>>)>>}

\* the calls: a batch with the date of the run, today or tomorrow
StoreArgs == {PersistArg(b, d) : b \in StoreBatches, d \in {Today, Today + 1}}

Persisting == op = "persist_snapshots"

\* where persist_snapshots goes on: with the next team of the snapshot,
\* with the next snapshot, or with the commit at the end of "with con"
StoreNext(items, idx) ==
    IF items # <<>> THEN "ps_team"
    ELSE IF idx <= Len(persist_arg.snapshots) THEN "ps_snap"
    ELSE "ps_commit"

\* con = self.cfg.connect(); with con: ... run_id = upsert_crawl_run(...)
PersistBegin ==
    /\ Persisting
    /\ pc = "ps_begin"
    /\ LET run == upsert_crawl_run(tables, persist_arg.run_date)
       IN  /\ cur' = run.db
           /\ run_id' = run.id
    /\ con' = "open"
    /\ p_idx' = 1
    /\ todo' = <<>>
    /\ pc' = StoreNext(<<>>, 1)
    /\ UNCHANGED <<tables, persist_arg, before, past, result, op>>
    /\ UNCHANGED <<cfgVars, httpVars, svcVars, runVars, histVars, ddVars, parseVars, apiVars>>

\* one round of "for snap in snapshots" up to its teams: the event, the
\* tournaments and the list of the teams to store
PersistEvent ==
    /\ Persisting
    /\ pc = "ps_snap"
    /\ LET snap == persist_arg.snapshots[p_idx]
           ev == upsert_event(cur, snap.event)
           ts == UpsertTournaments(ev.db, ev.id, snap.tournaments, EmptyDict)
           items == TeamsToStore(snap.teams_by_tournament,
                                 KeysInOrder(DOMAIN snap.teams_by_tournament),
                                 ts.map)
       IN  /\ cur' = ts.db
           /\ todo' = items
           /\ p_idx' = p_idx + 1
           /\ pc' = StoreNext(items, p_idx + 1)
    /\ UNCHANGED <<tables, con, persist_arg, run_id, before, past, result, op>>
    /\ UNCHANGED <<cfgVars, httpVars, svcVars, runVars, histVars, ddVars, parseVars, apiVars>>

\* one round of "for team in teams"
PersistTeam ==
    /\ Persisting
    /\ pc = "ps_team"
    /\ cur' = PersistTeamRows(cur, Head(todo).t_id, Head(todo).team, run_id)
    /\ todo' = Tail(todo)
    /\ pc' = StoreNext(Tail(todo), p_idx)
    /\ UNCHANGED <<tables, con, persist_arg, run_id, p_idx, before, past, result, op>>
    /\ UNCHANGED <<cfgVars, httpVars, svcVars, runVars, histVars, ddVars, parseVars, apiVars>>

\* the end of a call: what it was given and how it ended
PersistEnds(r) ==
    /\ result' = r
    /\ pc' = "done"
    /\ past' = Append(past, [arg |-> persist_arg, ok |-> r.ok, at |-> pc])
    /\ todo' = <<>>

\* "with con" is left without an exception: commit; finally: con.close()
PersistCommit ==
    /\ Persisting
    /\ pc = "ps_commit"
    /\ tables' = cur
    /\ con' = "closed"
    /\ PersistEnds(Returned(None))
    /\ UNCHANGED <<cur, persist_arg, run_id, p_idx, before, op>>
    /\ UNCHANGED <<cfgVars, httpVars, svcVars, runVars, histVars, ddVars, parseVars, apiVars>>

\* StatementFails with the rows written so far left in the tables
StatementFailsKeepsRows ==
    /\ Persisting
    /\ pc \in {"ps_begin", "ps_snap", "ps_team", "ps_commit"}
    /\ cur' = cur
    /\ tables' = cur
    /\ con' = "closed"
    /\ PersistEnds(Raised(DbError))
    /\ UNCHANGED <<persist_arg, run_id, p_idx, before, op>>
    /\ UNCHANGED <<cfgVars, httpVars, svcVars, runVars, histVars, ddVars, parseVars, apiVars>>

\* connect, a statement or the commit raises: "with con" rolls back,
\* finally closes the connection, and the exception leaves
\* persist_snapshots; when it was connect that raised there is no connection
StatementFails ==
    /\ Persisting
    /\ pc \in {"ps_begin", "ps_snap", "ps_team", "ps_commit"}
    /\ cur' = tables
    /\ \E connected \in BOOLEAN :
        /\ pc # "ps_begin" => connected
        /\ con' = IF connected THEN "closed" ELSE "none"
    /\ PersistEnds(Raised(DbError))
    /\ UNCHANGED <<tables, persist_arg, run_id, p_idx, before, op>>
    /\ UNCHANGED <<cfgVars, httpVars, svcVars, runVars, histVars, ddVars, parseVars, apiVars>>

\* persist_snapshots(snapshots, run_date) is called again
PersistAgain ==
    /\ Persisting
    /\ pc = "done"
    /\ Len(past) < MaxSubmissions
    /\ persist_arg' \in StoreArgs
    /\ before' = tables
    /\ cur' = tables
    /\ con' = "none"
    /\ pc' = "ps_begin"
    /\ result' = NoResult
    /\ UNCHANGED <<tables, run_id, p_idx, todo, past, op>>
    /\ UNCHANGED <<cfgVars, httpVars, svcVars, runVars, histVars, ddVars, parseVars, apiVars>>

-----------------------------------------------------------------------------
(* The tcode endpoint (src/api.py): _decode_tcode and api_tcode_withdrawals *)

\* The characters of a tcode, as far as _decode_tcode tells them apart: the
\* prefixes M and W, in upper and lower case, another character and white
\* space.
TcodeChars == {"M", "w", "A", " "}

\* str.upper, character by character
Upper(c) == IF c = "w" THEN "W" ELSE c

\* tcode.upper().strip()
Normalised(t) == Strip([i \in 1..Len(t) |-> Upper(t[i])])

TcodeError(why) == [type |-> "ValueError", why |-> why]

\* _decode_tcode(tcode): ValueError for a normalised code of fewer than 6
\* characters, then for one whose first character is neither M nor W;
\* else (gender, event_code_part, year_part), db_event_code being made of
\* the last two
_decode_tcode(t) ==
    LET code == Normalised(t)
    IN  IF Len(code) < 6 THEN Raised(TcodeError("TCODE too short"))
        ELSE IF code[1] \notin {"M", "W"}
            THEN Raised(TcodeError("Invalid gender prefix in TCODE"))
        ELSE Returned([gender |-> code[1],
                       event_code_part |-> SubSeq(code, 2, 4),
                       year_part |-> SubSeq(code, 5, Len(code))])

\* HTTPException(status_code, detail), and the answer 200 with the rows
HTTPException(status_code, detail) == [status_code |-> status_code, detail |-> detail]
RowsResponse == [status_code |-> 200, detail |-> "rows"]
NoResponse == [status_code |-> 0, detail |-> "None"]

\* the endpoint answers
Responds(r) ==
    /\ response' = r
    /\ pc' = "done"

\* gender, ... = _decode_tcode(tcode); except ValueError as ex:
\* raise HTTPException(status_code=400, detail=str(ex))
TcodeDecode ==
    /\ pc = "tc_decode"
    /\ LET decoded == _decode_tcode(tcode)
       IN  /\ result' = decoded
           /\ IF ~decoded.ok
                THEN Responds(HTTPException(400, decoded.exc.why))
                ELSE /\ pc' = "tc_event"
                     /\ response' = response
    /\ UNCHANGED <<tcode, queries, op>>
    /\ UNCHANGED <<cfgVars, httpVars, svcVars, runVars, histVars, ddVars, parseVars, dbVars>>

\* with db() ...: SELECT ... FROM event WHERE code = db_event_code;
\* 404 when there is no such event
TcodeFindEvent ==
    /\ pc = "tc_event"
    /\ queries' = Append(queries, "event")
    /\ \E found \in BOOLEAN :
        IF ~found
        THEN Responds(HTTPException(404, "Event not found for this tcode"))
        ELSE /\ pc' = "tc_tournament"
             /\ response' = response
    /\ UNCHANGED <<tcode, result, op>>
    /\ UNCHANGED <<cfgVars, httpVars, svcVars, runVars, histVars, ddVars, parseVars, dbVars>>

\* SELECT ... FROM tournament WHERE event_id = .. AND gender = ..;
\* 404 when the event has no tournament of the gender
TcodeFindTournament ==
    /\ pc = "tc_tournament"
    /\ queries' = Append(queries, "tournament")
    /\ \E found \in BOOLEAN :
        IF ~found
        THEN Responds(HTTPException(404, "Tournament for this gender not found"))
        ELSE /\ pc' = "tc_rows"
             /\ response' = response
    /\ UNCHANGED <<tcode, result, op>>
    /\ UNCHANGED <<cfgVars, httpVars, svcVars, runVars, histVars, ddVars, parseVars, dbVars>>

\* the withdrawal rows and last_checked are read and returned
TcodeRows ==
    /\ pc = "tc_rows"
    /\ queries' = queries \o <<"withdrawals", "last_checked">>
    /\ Responds(RowsResponse)
    /\ UNCHANGED <<tcode, result, op>>
    /\ UNCHANGED <<cfgVars, httpVars, svcVars, runVars, histVars, ddVars, parseVars, dbVars>>

-----------------------------------------------------------------------------
(* FIVBService: _track, the fetch_* methods and run *)

\* RuntimeError("The limit of request is over ...")
BudgetError == [type |-> "RuntimeError", why |-> "limit of requests"]

NoHit == [kind |-> "none", issued |-> 0]

\* _track raising already when the count reaches the ceiling
ExceedsOrMeets(count, ceiling) == count >= ceiling

\* Exceeds letting the counter go one past the ceiling
ExceedsByTwo(count, ceiling) == count > ceiling + 1

\* if self._request_count > self.max_requests_per_run
Exceeds(count, ceiling) == count > ceiling

SetRun(evs, ei, eno, ts, ti, tno, si, at, tbt, snaps) ==
    /\ events' = evs
    /\ ev_idx' = ei
    /\ event_no' = eno
    /\ tournaments' = ts
    /\ t_idx' = ti
    /\ tournament_no' = tno
    /\ s_idx' = si
    /\ all_teams' = at
    /\ teams_by_tournament' = tbt
    /\ snapshots' = snaps

\* the locals of a get_xml call that is over are gone
LeaveGetXml ==
    /\ req' = NoRequest
    /\ attempt' = 0
    /\ last_exc' = NoExc
    /\ resp' = NoResp
    /\ xml_result' = NoResult
    /\ trace' = <<>>

\* the invoked method is over: it returns a value or an exception leaves
\* it; of its locals only the selected events are kept, for the record
MethodEndsWith(evs, res) ==
    /\ result' = res
    /\ pc' = "done"
    /\ SetRun(evs, 0, 0, <<>>, 0, 0, 0, <<>>, EmptyDict, <<>>)

MethodEnds(res) == MethodEndsWith(events, res)

\* run's handler catching the errors of the transport only
RunCatchesRequestException(exc) == exc.type = "RequestException"

\* run: "except Exception" around fetch_event_tournaments
RunCatches(exc) == TRUE

\* fetch_teams_for_tournament's handler catching every exception
EndsStatusLoopOnAny(exc) == TRUE

\* fetch_teams_for_tournament without the handler
EndsStatusLoopNever(exc) == FALSE

\* fetch_teams_for_tournament: "except IndexError: break"
EndsStatusLoop(exc) == exc.type = "IndexError"

\* RunNextEvent going through the events from the last to the first
RunNextEventBackwards(evs, i, snaps) ==
    IF i <= Len(evs)
        THEN /\ SetRun(evs, i, evs[Len(evs) + 1 - i].no, <<>>, 0, 0, 0, <<>>, EmptyDict, snaps)
             /\ pc' = "fet_track"
             /\ result' = result
        ELSE MethodEndsWith(evs, Returned(snaps))

\* run: "for ev in events" at the i-th event, with the snapshots so far; the
\* loop body starts with fetch_event_tournaments(ev.no), after the loop run
\* returns snapshots
RunNextEvent(evs, i, snaps) ==
    IF i <= Len(evs)
        THEN /\ SetRun(evs, i, evs[i].no, <<>>, 0, 0, 0, <<>>, EmptyDict, snaps)
             /\ pc' = "fet_track"
             /\ result' = result
        ELSE MethodEndsWith(evs, Returned(snaps))

\* run: "for tref in tournaments" at the j-th tournament of the current event;
\* the loop body is fetch_teams_for_tournament(tref.tournament_no), after the
\* loop the event's snapshot is appended and the event loop moves on
RunNextTournament(ts, j, tbt) ==
    IF j <= Len(ts)
        THEN /\ SetRun(events, ev_idx, event_no, ts, j, ts[j].tournament_no, 1,
                       <<>>, tbt, snapshots)
             /\ pc' = "ftt_track"
             /\ result' = result
        ELSE RunNextEvent(events, ev_idx + 1,
                Append(snapshots, EventTeamsSnapshot(events[ev_idx], ts, tbt)))

\* FetchTeamsReturns leaving a tournament without teams out of run's dict
FetchTeamsReturnsDropsEmpty(teams) ==
    IF op = "run"
        THEN RunNextTournament(tournaments, t_idx + 1,
                IF teams = <<>> THEN teams_by_tournament
                ELSE DictSet(teams_by_tournament, tournament_no, teams))
        ELSE MethodEnds(Returned(teams))

\* FetchTeamsReturns storing the list under the position of the tournament
FetchTeamsReturnsUnderIndex(teams) ==
    IF op = "run"
        THEN RunNextTournament(tournaments, t_idx + 1,
                DictSet(teams_by_tournament, t_idx, teams))
        ELSE MethodEnds(Returned(teams))

\* fetch_teams_for_tournament returns teams: to run's dict, or to the caller
FetchTeamsReturns(teams) ==
    IF op = "run"
        THEN RunNextTournament(tournaments, t_idx + 1,
                DictSet(teams_by_tournament, tournament_no, teams))
        ELSE MethodEnds(Returned(teams))

\* self._track(): the counter goes up by one, and the call raises when the
\* counter is then over the ceiling
TrackRaises == Exceeds(_request_count + 1, max_requests_per_run)

\* Track counting only the calls it lets pass
TrackCountsGranted(kind) ==
    /\ _request_count' = IF TrackRaises THEN _request_count ELSE _request_count + 1
    /\ track_calls' = track_calls + 1
    /\ track_fails' = IF TrackRaises THEN track_fails + 1 ELSE track_fails
    /\ budget_hit' = IF TrackRaises /\ budget_hit = NoHit
                        THEN [kind |-> kind, issued |-> Len(issued)]
                        ELSE budget_hit

\* Track counting the call twice
TrackCountsTwice(kind) ==
    /\ _request_count' = _request_count + 2
    /\ track_calls' = track_calls + 1
    /\ track_fails' = IF TrackRaises THEN track_fails + 1 ELSE track_fails
    /\ budget_hit' = IF TrackRaises /\ budget_hit = NoHit
                        THEN [kind |-> kind, issued |-> Len(issued)]
                        ELSE budget_hit

Track(kind) ==
    /\ _request_count' = _request_count + 1
    /\ track_calls' = track_calls + 1
    /\ track_fails' = IF TrackRaises THEN track_fails + 1 ELSE track_fails
    /\ budget_hit' = IF TrackRaises /\ budget_hit = NoHit
                        THEN [kind |-> kind, issued |-> Len(issued)]
                        ELSE budget_hit

\* self.client.get_xml(url) is called
IssueRequest(r) ==
    /\ issued' = Append(issued, r)
    /\ get_xml_calls' = get_xml_calls + 1
    /\ EnterGetXml(r)
    /\ pc' = "gx_try"

\* get_xml has handed its outcome to the method: the call is noted with the
\* document it returned, or as one that raised
NoteOutcome ==
    /\ failed' = IF xml_result.ok THEN failed ELSE Append(failed, req)
    /\ answered' = IF xml_result.ok
                        THEN Append(answered, [req |-> req, doc |-> xml_result.value])
                        ELSE answered

\* fetch_upcoming_events up to the call of get_xml; a budget error leaves
\* the method, and run with it
TrackEventList ==
    /\ pc = "fue_track"
    /\ Track("list")
    /\ IF TrackRaises
        THEN /\ MethodEnds(Raised(BudgetError))
             /\ UNCHANGED <<httpVars, issued, get_xml_calls>>
        ELSE /\ IssueRequest(Request("list", 0, "None"))
             /\ UNCHANGED <<result, runVars>>
    /\ UNCHANGED <<cfgVars, op, detail_ok, failed, answered, ddVars, sideVars>>

\* fetch_event_tournaments up to the call of get_xml; in run a budget error
\* is caught by "except Exception" and the event is skipped
TrackEventDetail ==
    /\ pc = "fet_track"
    /\ Track("detail")
    /\ IF TrackRaises
        THEN /\ IF op = "run" /\ RunCatches(BudgetError)
                    THEN RunNextEvent(events, ev_idx + 1, snapshots)
                    ELSE MethodEnds(Raised(BudgetError))
             /\ UNCHANGED <<httpVars, issued, get_xml_calls>>
        ELSE /\ IssueRequest(Request("detail", event_no, "None"))
             /\ UNCHANGED <<result, runVars>>
    /\ UNCHANGED <<cfgVars, op, detail_ok, failed, answered, ddVars, sideVars>>

\* fetch_teams_for_tournament, one iteration of "for status in
\* STATUSES_TO_FETCH" up to the call of get_xml; a budget error leaves the
\* method, and run with it
TrackTeamList ==
    /\ pc = "ftt_track"
    /\ Track("teams")
    /\ IF TrackRaises
        THEN /\ MethodEnds(Raised(BudgetError))
             /\ UNCHANGED <<httpVars, issued, get_xml_calls>>
        ELSE /\ IssueRequest(Request("teams", tournament_no, STATUSES_TO_FETCH[s_idx]))
             /\ UNCHANGED <<result, runVars>>
    /\ UNCHANGED <<cfgVars, op, detail_ok, failed, answered, ddVars, sideVars>>

\* fetch_upcoming_events after get_xml: parse, select the window, return;
\* an exception of get_xml leaves the method, and run with it
EventListFetched ==
    /\ pc = "gx_done"
    /\ req.kind = "list"
    /\ LeaveGetXml
    /\ IF xml_result.ok
        THEN LET parsed == parse_event_list(xml_result.value)
                 selected == SelectUpcoming(parsed.value, Today, window_days)
             IN  IF ~parsed.ok THEN MethodEnds(Raised(parsed.exc))
                 ELSE IF op = "run" THEN RunNextEvent(selected, 1, <<>>)
                 ELSE MethodEnds(Returned(selected))
        ELSE MethodEnds(Raised(xml_result.exc))
    /\ NoteOutcome
    /\ UNCHANGED <<cfgVars, op, svcVars, issued, detail_ok, budget_hit, ddVars, sideVars>>

\* fetch_event_tournaments after get_xml; in run an exception of get_xml is
\* caught and the event skipped
EventDetailFetched ==
    /\ pc = "gx_done"
    /\ req.kind = "detail"
    /\ LeaveGetXml
    /\ IF xml_result.ok
        THEN LET trefs == parse_event_tournaments(xml_result.value)
             IN  /\ IF op = "run"
                        THEN RunNextTournament(trefs, 1, EmptyDict)
                        ELSE MethodEnds(Returned(trefs))
                 /\ detail_ok' = Append(detail_ok, event_no)
        ELSE /\ IF op = "run" /\ RunCatches(xml_result.exc)
                    THEN RunNextEvent(events, ev_idx + 1, snapshots)
                    ELSE MethodEnds(Raised(xml_result.exc))
             /\ detail_ok' = detail_ok
    /\ NoteOutcome
    /\ UNCHANGED <<cfgVars, op, svcVars, issued, budget_hit, ddVars, sideVars>>

\* fetch_teams_for_tournament after get_xml: the teams of this status are
\* added and the loop moves on; an IndexError ends the loop; after the loop
\* the list is deduplicated and returned; any other exception leaves the
\* method, and run with it
TeamListFetched ==
    /\ pc = "gx_done"
    /\ req.kind = "teams"
    /\ LeaveGetXml
    /\ IF xml_result.ok
        THEN LET teams == parse_teams(xml_result.value, STATUSES_TO_FETCH[s_idx])
                 extended == all_teams \o teams
             IN  IF s_idx < Len(STATUSES_TO_FETCH)
                    THEN /\ s_idx' = s_idx + 1
                         /\ all_teams' = extended
                         /\ pc' = "ftt_track"
                         /\ UNCHANGED <<result, events, ev_idx, event_no,
                                        tournaments, t_idx, tournament_no,
                                        teams_by_tournament, snapshots>>
                    ELSE FetchTeamsReturns(dedupe_teams(extended))
        ELSE IF EndsStatusLoop(xml_result.exc)
            THEN FetchTeamsReturns(dedupe_teams(all_teams))
            ELSE MethodEnds(Raised(xml_result.exc))
    /\ NoteOutcome
    /\ UNCHANGED <<cfgVars, op, svcVars, issued, detail_ok, budget_hit, ddVars, sideVars>>

-----------------------------------------------------------------------------
(* The callers *)

\* a method may be invoked when none is running; the counter of the service
\* is not let past MaxCount
Callable == pc \in {"idle", "done"} /\ _request_count < MaxCount

Invoke(method) ==
    /\ op' = method
    /\ result' = NoResult
    /\ issued' = <<>>
    /\ detail_ok' = <<>>
    /\ budget_hit' = NoHit
    /\ failed' = <<>>
    /\ answered' = <<>>
    /\ LeaveGetXml

\* svc.run(year)
CallRun ==
    /\ Callable
    /\ Invoke("run")
    /\ pc' = "fue_track"
    /\ SetRun(<<>>, 0, 0, <<>>, 0, 0, 0, <<>>, EmptyDict, <<>>)
    /\ UNCHANGED <<cfgVars, svcVars, ddVars, sideVars>>

\* svc.fetch_upcoming_events(year)
CallFetchUpcomingEvents ==
    /\ Callable
    /\ Invoke("fetch_upcoming_events")
    /\ pc' = "fue_track"
    /\ SetRun(<<>>, 0, 0, <<>>, 0, 0, 0, <<>>, EmptyDict, <<>>)
    /\ UNCHANGED <<cfgVars, svcVars, ddVars, sideVars>>

\* svc.fetch_event_tournaments(event_no)
CallFetchEventTournaments ==
    /\ Callable
    /\ Invoke("fetch_event_tournaments")
    /\ pc' = "fet_track"
    /\ \E no \in {1, 2} :
        SetRun(<<>>, 0, no, <<>>, 0, 0, 0, <<>>, EmptyDict, <<>>)
    /\ UNCHANGED <<cfgVars, svcVars, ddVars, sideVars>>

\* svc.fetch_teams_for_tournament(tournament_no)
CallFetchTeamsForTournament ==
    /\ Callable
    /\ Invoke("fetch_teams_for_tournament")
    /\ pc' = "ftt_track"
    /\ \E no \in {11, 21} :
        SetRun(<<>>, 0, 0, <<>>, 0, no, 1, <<>>, EmptyDict, <<>>)
    /\ UNCHANGED <<cfgVars, svcVars, ddVars, sideVars>>

\* hc.get_xml(url)
CallGetXml ==
    /\ pc \in {"idle", "done"}
    /\ op' = "get_xml"
    /\ pc' = "gx_try"
    /\ result' = NoResult
    /\ EnterGetXml(RawRequest)
    /\ UNCHANGED <<cfgVars, svcVars, runVars, histVars, ddVars, sideVars>>

\* get_xml hands its root element or its exception to the caller
GetXmlReturns ==
    /\ pc = "gx_done"
    /\ req.kind = "raw"
    /\ result' = xml_result
    /\ pc' = "done"
    /\ LeaveGetXml
    /\ UNCHANGED <<cfgVars, op, svcVars, runVars, histVars, ddVars, sideVars>>

-----------------------------------------------------------------------------
(* Specifications *)

InitCommon ==
    /\ _request_count = 0
    /\ track_calls = 0
    /\ track_fails = 0
    /\ get_xml_calls = 0
    /\ result = NoResult
    /\ req = NoRequest
    /\ attempt = 0
    /\ last_exc = NoExc
    /\ resp = NoResp
    /\ xml_result = NoResult
    /\ trace = <<>>
    /\ events = <<>>
    /\ ev_idx = 0
    /\ event_no = 0
    /\ tournaments = <<>>
    /\ t_idx = 0
    /\ tournament_no = 0
    /\ s_idx = 0
    /\ all_teams = <<>>
    /\ teams_by_tournament = EmptyDict
    /\ snapshots = <<>>
    /\ issued = <<>>
    /\ detail_ok = <<>>
    /\ budget_hit = NoHit
    /\ failed = <<>>
    /\ answered = <<>>
    /\ deduped = <<>>

\* no parser is at work
NoParse ==
    /\ parse_root = NoDoc
    /\ refs = <<>>
    /\ strategies = <<>>

\* an empty database and no call of persist_snapshots
NoStore ==
    /\ tables = NoRows
    /\ cur = NoRows
    /\ con = "none"
    /\ persist_arg = PersistArg(<<>>, Today)
    /\ run_id = 0
    /\ p_idx = 0
    /\ todo = <<>>
    /\ before = NoRows
    /\ past = <<>>

\* no request to the endpoint
NoApi ==
    /\ tcode = <<>>
    /\ queries = <<>>
    /\ response = NoResponse

\* FIVBService(HttpClient(max_attempts=..), max_requests_per_run=..)
Init ==
    /\ InitCommon
    /\ NoParse
    /\ NoStore
    /\ NoApi
    /\ max_attempts \in 1..MaxServiceAttempts
    /\ max_requests_per_run \in 0..MaxCeiling
    /\ op = "idle"
    /\ pc = "idle"
    /\ team_list = <<>>

Next ==
    \/ CallRun
    \/ CallFetchUpcomingEvents
    \/ CallFetchEventTournaments
    \/ CallFetchTeamsForTournament
    \/ TrackEventList
    \/ TrackEventDetail
    \/ TrackTeamList
    \/ Attempt
    \/ Sleep
    \/ EventListFetched
    \/ EventDetailFetched
    \/ TeamListFetched

Spec == Init /\ [][Next]_vars

\* one FIVBService on which run is invoked again and again, and nothing else
NextRuns ==
    \/ CallRun
    \/ TrackEventList
    \/ TrackEventDetail
    \/ TrackTeamList
    \/ Attempt
    \/ Sleep
    \/ EventListFetched
    \/ EventDetailFetched
    \/ TeamListFetched

SpecRuns == Init /\ [][NextRuns]_vars

\* the steps of the program itself: once run is called, the thread goes on;
\* session.get ends by its timeout at the latest and time.sleep returns
Running ==
    \/ TrackEventList
    \/ TrackEventDetail
    \/ TrackTeamList
    \/ Attempt
    \/ Sleep
    \/ EventListFetched
    \/ EventDetailFetched
    \/ TeamListFetched

\* svc.run(year) on a service on which no method has been invoked
CallRunFresh == track_calls = 0 /\ CallRun

\* one run on a fresh FIVBService with a ceiling up to MaxLiveCeiling, by a
\* thread that keeps going
InitLive == Init /\ max_requests_per_run <= MaxLiveCeiling

NextLive == CallRunFresh \/ Running

SpecLive == InitLive /\ [][NextLive]_vars /\ WF_vars(Running)

\* HttpClient(max_attempts=..)
InitHttp ==
    /\ InitCommon
    /\ NoParse
    /\ NoStore
    /\ NoApi
    /\ max_attempts \in 1..MaxAttempts
    /\ max_requests_per_run = 0
    /\ op = "idle"
    /\ pc = "idle"
    /\ team_list = <<>>

NextHttp == CallGetXml \/ Attempt \/ Sleep \/ GetXmlReturns

SpecHttp == InitHttp /\ [][NextHttp]_vars

InitDedupe ==
    /\ InitCommon
    /\ NoParse
    /\ NoStore
    /\ NoApi
    /\ max_attempts = 1
    /\ max_requests_per_run = 0
    /\ op = "dedupe_teams"
    /\ pc = "dd_call"
    /\ \E n \in 0..MaxTeams : team_list \in [1..n -> DedupeTeams]

NextDedupe == Dedupe

SpecDedupe == InitDedupe /\ [][NextDedupe]_vars

\* parse_event_list(root) or parse_event_tournaments(root) is called
InitParse ==
    /\ InitCommon
    /\ max_attempts = 1
    /\ max_requests_per_run = 0
    /\ team_list = <<>>
    /\ refs = <<>>
    /\ strategies = <<>>
    /\ NoStore
    /\ NoApi
    /\ \/ /\ op = "parse_event_list"
          /\ pc = "pel_call"
          /\ \E n \in 0..MaxEventNodes : parse_root \in [1..n -> EventNodeChoices]
       \/ /\ op = "parse_event_tournaments"
          /\ pc = "pet_direct"
          /\ \E direct \in DirectChoices, a, b \in 0..MaxContents :
                \E contents \in [1..a -> EmbeddedChoices(8135)],
                   attrs \in [1..b -> EmbeddedChoices(7135)] :
                    parse_root = EventRoot(direct, contents, attrs)

NextParse == ParseEventList \/ TryDirect \/ TryContentText \/ TryContentAttr

SpecParse == InitParse /\ [][NextParse]_vars

\* Storage().persist_snapshots(snapshots, run_date) is called on an empty
\* database
InitStore ==
    /\ InitCommon
    /\ NoParse
    /\ NoApi
    /\ max_attempts = 1
    /\ max_requests_per_run = 0
    /\ team_list = <<>>
    /\ op = "persist_snapshots"
    /\ pc = "ps_begin"
    /\ tables = NoRows
    /\ cur = NoRows
    /\ con = "none"
    /\ persist_arg \in StoreArgs
    /\ run_id = 0
    /\ p_idx = 0
    /\ todo = <<>>
    /\ before = NoRows
    /\ past = <<>>

NextStore ==
    \/ PersistBegin
    \/ PersistEvent
    \/ PersistTeam
    \/ PersistCommit
    \/ StatementFails
    \/ PersistAgain

SpecStore == InitStore /\ [][NextStore]_vars

\* GET /tcode/{tcode}/withdrawals
InitApi ==
    /\ InitCommon
    /\ NoParse
    /\ NoStore
    /\ max_attempts = 1
    /\ max_requests_per_run = 0
    /\ team_list = <<>>
    /\ op = "api_tcode_withdrawals"
    /\ pc = "tc_decode"
    /\ \E n \in 0..MaxTcode : tcode \in [1..n -> TcodeChars]
    /\ queries = <<>>
    /\ response = NoResponse

NextApi == TcodeDecode \/ TcodeFindEvent \/ TcodeFindTournament \/ TcodeRows

SpecApi == InitApi /\ [][NextApi]_vars

-----------------------------------------------------------------------------
(* Claims about HttpClient.get_xml, checked under SpecHttp *)

InGetXml == pc \in {"gx_try", "gx_sleep"}

IsAttempt(e) == e.ev # "wait"
AttemptsOf(t) == SelectSeq(t, IsAttempt)
IsFail(e) == e.ev = "fail"
FailsOf(t) == SelectSeq(t, IsFail)
IsWait(e) == e.ev = "wait"
WaitsOf(t) == SelectSeq(t, IsWait)

\* the number of the attempt that wrote entry i of the trace
AttemptNo(i) == Len(AttemptsOf(SubSeq(trace, 1, i)))

\* C3: one get_xml call makes at most max_attempts attempts, and a successful
\* attempt is the last thing the call does: nothing follows it in the trace
\* and the call is over.
C3_AttemptsBounded ==
    /\ Len(AttemptsOf(trace)) <= max_attempts
    /\ \A i \in 1..Len(trace) :
        trace[i].ev = "ok" => i = Len(trace) /\ ~InGetXml

\* a call that succeeded on its last allowed attempt, after failures
C3_Witness ==
    /\ max_attempts >= 2
    /\ pc = "gx_done"
    /\ xml_result.ok
    /\ Len(AttemptsOf(trace)) = max_attempts

\* C4: a wait follows a failed attempt exactly when the attempt is not the
\* last allowed one; N failures then a success give N waits, max_attempts
\* failures give max_attempts - 1 waits and none after the final failure.
C4_WaitsBetweenAttempts ==
    /\ \A i \in 1..Len(trace) :
        trace[i].ev = "fail" =>
            IF AttemptNo(i) < max_attempts
                THEN \/ i < Len(trace) /\ trace[i + 1].ev = "wait"
                     \/ i = Len(trace) /\ pc = "gx_sleep"
                ELSE i = Len(trace) /\ pc # "gx_sleep"
    /\ \A i \in 1..Len(trace) :
        trace[i].ev = "wait" => i > 1 /\ trace[i - 1].ev = "fail"
    /\ (~InGetXml /\ xml_result.ok) =>
        /\ Len(FailsOf(trace)) < max_attempts
        /\ Len(WaitsOf(trace)) = Len(FailsOf(trace))
    /\ (~InGetXml /\ xml_result.exc # NoExc) =>
        /\ Len(FailsOf(trace)) = max_attempts
        /\ Len(WaitsOf(trace)) = max_attempts - 1
        /\ trace[Len(trace)].ev = "fail"

\* a call that failed on every one of three attempts and so waited twice
C4_Witness ==
    /\ max_attempts = 3
    /\ pc = "gx_done"
    /\ ~xml_result.ok
    /\ Len(FailsOf(trace)) = 3
    /\ Len(WaitsOf(trace)) = 2

\* C5: when all max_attempts attempts have failed the call raises, and what
\* it raises is the exception of the last attempt.
C5_RaisesLastCause ==
    (~InGetXml /\ Len(FailsOf(trace)) = max_attempts) =>
        /\ ~xml_result.ok
        /\ xml_result.exc # NoExc
        /\ xml_result.exc = trace[Len(trace)].exc
        /\ xml_result.exc = TryAttempt(resp).exc

\* an exhausted call whose first failure had another cause than its last
C5_Witness ==
    /\ pc = "gx_done"
    /\ Len(FailsOf(trace)) = max_attempts
    /\ max_attempts >= 2
    /\ trace[1].exc # trace[Len(trace)].exc
    /\ xml_result.exc = trace[Len(trace)].exc

\* an attempt fails, as the specification words it
FailsAsSpecified(r) ==
    \/ r.exc # "none"
    \/ r.status # 200
    \/ \A i \in 1..Len(r.text) : r.text[i] = " "
    \/ ~ParsesAsXml(r.text)

\* C6: the latest attempt is logged as failed if and only if the transport
\* raised, the status is not 200, the body is empty or blank, or the body is
\* no well-formed document; otherwise the call is over and has returned the
\* document of that very response.
C6_AttemptFailsIff ==
    trace # <<>> =>
        LET att == AttemptsOf(trace)
            e == att[Len(att)]
        IN  /\ e.ev = "fail" <=> FailsAsSpecified(resp)
            /\ e.ev = "ok" =>
                /\ ~InGetXml
                /\ xml_result = Returned(resp.doc)

\* a success after a failure, returning a non-empty document from a body
\* with surrounding white space
C6_Witness ==
    /\ pc = "gx_done"
    /\ Len(trace) = 3
    /\ xml_result.ok
    /\ xml_result.value # NoDoc
    /\ resp.text # <<"d">>

-----------------------------------------------------------------------------
(* Claims about FIVBService, checked under Spec *)

Last(q) == q[Len(q)]

\* C1: on a service with ceiling C the first C calls of _track succeed and
\* call C + 1 raises; a fetch method invoked by the caller then ends with
\* the budget error.
C1_CeilingCallsSucceed ==
    /\ track_calls <= max_requests_per_run => track_fails = 0
    /\ track_calls = max_requests_per_run + 1 =>
        /\ track_fails = 1
        /\ (op # "run" /\ pc = "done" /\ budget_hit # NoHit) =>
            result = Raised(BudgetError)

\* a run on a fresh service whose list, detail and team requests used up a
\* ceiling of at least 3 and whose next team request was refused
C1_Witness ==
    /\ max_requests_per_run >= 3
    /\ track_calls = max_requests_per_run + 1
    /\ track_fails = 1
    /\ op = "run"
    /\ budget_hit.kind = "teams"
    /\ Len(issued) = max_requests_per_run
    /\ result = Raised(BudgetError)

\* C2: whichever step of run makes the tracked call that exceeds the
\* ceiling, run is over with the budget error, has returned no batch and has
\* issued no request since.
C2_BudgetErrorEndsRun ==
    (op = "run" /\ budget_hit # NoHit) =>
        /\ pc = "done"
        /\ result = Raised(BudgetError)
        /\ Len(issued) = budget_hit.issued

\* C7: run never ends with the failure of an event-detail fetch; when it
\* returns, the batch holds in selection order one snapshot for each selected
\* event whose event-detail fetch succeeded, every team-list request follows
\* the event-detail request of such an event, and unless the budget ran out
\* an event-detail request was issued for every selected event.
IsDetail(r) == r.kind = "detail"
DetailFetched(ev) == \E i \in 1..Len(detail_ok) : detail_ok[i] = ev.no

C7_FailedEventSkipped ==
    (op = "run" /\ pc = "done") =>
        /\ ~result.ok =>
            \/ result.exc = BudgetError /\ budget_hit.kind \in {"list", "teams"}
            \/ result.exc # BudgetError /\ Last(issued).kind \in {"list", "teams"}
        /\ result.ok =>
            /\ [i \in 1..Len(result.value) |-> result.value[i].event]
                    = SelectSeq(events, DetailFetched)
            /\ \A i \in 1..Len(issued) :
                issued[i].kind = "teams" =>
                    \E j \in 1..(i - 1) :
                        /\ issued[j].kind = "detail"
                        /\ \A k \in (j + 1)..(i - 1) : issued[k].kind = "teams"
                        /\ \E n \in 1..Len(detail_ok) : detail_ok[n] = issued[j].no
            /\ budget_hit = NoHit =>
                [i \in 1..Len(SelectSeq(issued, IsDetail)) |->
                        SelectSeq(issued, IsDetail)[i].no]
                    = [i \in 1..Len(events) |-> events[i].no]

\* a run over two events that lost the first to a failed event-detail fetch
\* and returned the snapshot of the second, with its tournament
C7_Witness ==
    /\ op = "run"
    /\ pc = "done"
    /\ result.ok
    /\ Len(events) = 2
    /\ detail_ok = <<2>>
    /\ Len(result.value) = 1
    /\ result.value[1].event.no = 2
    /\ Len(result.value[1].tournaments) = 1
    /\ \E i \in 1..Len(issued) : issued[i] = Request("detail", 1, "None")

TeamQueryFailed ==
    /\ op \in {"run", "fetch_teams_for_tournament"}
    /\ pc = "gx_done"
    /\ req.kind = "teams"
    /\ ~xml_result.ok

PropagatesTeamFailure == pc' = "done" /\ result' = Raised(xml_result.exc)

\* C8 as claimed: a team-list query that failed after the retries always
\* ends fetch_teams_for_tournament, and run, with that exception.
C8_TeamFailurePropagates ==
    [][TeamQueryFailed => PropagatesTeamFailure]_vars

\* C8, amended: a team-list query that failed after the retries with any
\* exception but an IndexError ends fetch_teams_for_tournament, and run, with
\* that exception: no batch is returned.
C8_TeamFailurePropagatesUnlessIndexError ==
    [][(TeamQueryFailed /\ xml_result.exc.type # "IndexError")
            => PropagatesTeamFailure]_vars

\* a run that had completed its first event and was ended by the failure of
\* a team-list query of the second
C8_Witness ==
    /\ op = "run"
    /\ pc = "done"
    /\ ~result.ok
    /\ result.exc.type = "RequestException"
    /\ detail_ok = <<1, 2>>
    /\ Last(issued).kind = "teams"
    /\ Last(issued).no = 21

\* the team lists run has stored: in the dict of the event it works on, in
\* the snapshots it has appended, and in the batch it returned
StoredDicts ==
    IF op # "run" THEN {}
    ELSE {teams_by_tournament}
         \cup {snapshots[i].teams_by_tournament : i \in 1..Len(snapshots)}
         \cup (IF result.ok
                THEN {result.value[i].teams_by_tournament : i \in 1..Len(result.value)}
                ELSE {})

StoredTeamLists == UNION {{d[no] : no \in DOMAIN d} : d \in StoredDicts}

BothPresent(t) == t.no_player1 # None /\ t.no_player2 # None

\* C11: in every team list run has stored for a tournament, two entries
\* whose player numbers are all present differ in their (player1, player2)
\* pair.
C11_NoPairTwiceInStoredList ==
    \A l \in StoredTeamLists :
        \A i, j \in 1..Len(l) :
            (i # j /\ BothPresent(l[i]) /\ BothPresent(l[j])) =>
                <<l[i].no_player1, l[i].no_player2>> # <<l[j].no_player1, l[j].no_player2>>

\* a returned batch with a list in which team a stands ahead of team b, both
\* Withdrawn: team a was answered as Registered, then teams b and a as
\* Withdrawn, and the two entries of team a were merged in the place of the
\* first
C11_Witness ==
    /\ op = "run"
    /\ pc = "done"
    /\ result.ok
    /\ \E l \in StoredTeamLists :
        /\ Len(l) = 2
        /\ l[1] = BeachTeam(1, 2, "a", None, "Withdrawn", None)
        /\ l[2] = BeachTeam(3, 4, "b", None, "Withdrawn", None)

\* the events selected by the step that ends fetch_upcoming_events
SelectedNext == IF op = "run" THEN events' ELSE result'.value

\* C15: of the events of a fetched event list exactly those are selected
\* whose start date lies between today and today + window_days: a start
\* date of today or of today + window_days is selected, a start date of
\* today - 1 or of today + window_days + 1 is not.
C15_WindowBoundsInclusive ==
    [][(pc = "gx_done" /\ req.kind = "list" /\ xml_result.ok) =>
        \A i \in 1..Len(xml_result.value) :
            LET node == xml_result.value[i]
                selected == \E j \in 1..Len(SelectedNext) :
                                /\ SelectedNext[j].no = node.No.n
                                /\ SelectedNext[j].start_date = node.StartDate.n
            IN  /\ selected <=> (Today <= node.StartDate.n
                                    /\ node.StartDate.n <= Today + window_days)
                /\ node.StartDate.n \in {Today, Today + window_days} => selected
                /\ node.StartDate.n \in {Today - 1, Today + window_days + 1} => ~selected
      ]_vars

\* fetch_upcoming_events has returned the events that start today and on the
\* last day of the window; the one list that holds them also holds an event
\* that started yesterday and one that starts the day after the window
C15_Witness ==
    /\ op = "fetch_upcoming_events"
    /\ pc = "done"
    /\ result.ok
    /\ result.value = <<Event(1, Today), Event(2, Today + window_days)>>

\* the status queries issued for tournament no, in the order of their issue
TeamRequestsOf(no) ==
    LET ForNo(r) == r.kind = "teams" /\ r.no = no
    IN  SelectSeq(issued, ForNo)

\* the team list of tournament no has been returned by
\* fetch_teams_for_tournament, to the caller or to run
TeamListReturned(no) ==
    \/ /\ op = "fetch_teams_for_tournament"
       /\ pc = "done"
       /\ result.ok
       /\ TeamRequestsOf(no) # <<>>
    \/ \E d \in StoredDicts : no \in DOMAIN d

NoQueryFailed(no) ==
    \A i \in 1..Len(failed) : ~(failed[i].kind = "teams" /\ failed[i].no = no)

TeamAnswersOf(no) ==
    LET ForNo(a) == a.req.kind = "teams" /\ a.req.no = no
    IN  SelectSeq(answered, ForNo)

\* all four status queries of tournament no returned, each without a team
AllAnsweredEmpty(no) ==
    /\ Len(TeamAnswersOf(no)) = 4
    /\ \A i \in 1..4 : TeamAnswersOf(no)[i].doc = <<>>

HasTournament(snap, no) ==
    \E k \in 1..Len(snap.tournaments) : snap.tournaments[k].tournament_no = no

\* C17: a tournament whose four status queries all returned no team does
\* not make run fail and is not left out: the batch run returns has a
\* snapshot that lists it and maps its number to the empty list. run raises
\* only the budget error or the exception of a get_xml call.
C17_EmptyTournamentKept ==
    (op = "run" /\ pc = "done") =>
        /\ ~result.ok => (result.exc = BudgetError \/ failed # <<>>)
        /\ result.ok =>
            \A no \in {11, 12, 21} :
                AllAnsweredEmpty(no) =>
                    \E i \in 1..Len(result.value) :
                        /\ HasTournament(result.value[i], no)
                        /\ no \in DOMAIN result.value[i].teams_by_tournament
                        /\ result.value[i].teams_by_tournament[no] = <<>>

\* a returned snapshot of two tournaments: tournament 11 without any team in
\* its four answers, tournament 12 with a team
C17_Witness ==
    /\ op = "run"
    /\ pc = "done"
    /\ result.ok
    /\ AllAnsweredEmpty(11)
    /\ \E i \in 1..Len(result.value) :
        /\ HasTournament(result.value[i], 11)
        /\ HasTournament(result.value[i], 12)
        /\ result.value[i].teams_by_tournament[11] = <<>>
        /\ result.value[i].teams_by_tournament[12] # <<>>

\* the snapshots run has appended and those of the batch it returned
StoredSnapshots ==
    IF op # "run" THEN {}
    ELSE {snapshots[i] : i \in 1..Len(snapshots)}
         \cup (IF result.ok THEN {result.value[i] : i \in 1..Len(result.value)}
                ELSE {})

\* C18: in every snapshot of run each key of teams_by_tournament is the
\* tournament_no of a BeachTournamentRef of that snapshot's tournaments.
C18_KeysAreOwnTournaments ==
    \A snap \in StoredSnapshots :
        \A key \in DOMAIN snap.teams_by_tournament : HasTournament(snap, key)

\* a returned snapshot whose dict has the two keys 11 and 12, both with teams
C18_Witness ==
    /\ op = "run"
    /\ pc = "done"
    /\ result.ok
    /\ \E i \in 1..Len(result.value) :
        /\ DOMAIN result.value[i].teams_by_tournament = {11, 12}
        /\ Len(result.value[i].tournaments) = 2
        /\ result.value[i].teams_by_tournament[11] # <<>>
        /\ result.value[i].teams_by_tournament[12] # <<>>

\* team t was in the answer to the query of tournament no for status
AnsweredUnder(no, status, t) ==
    \E i \in 1..Len(answered) :
        /\ answered[i].req = Request("teams", no, status)
        /\ \E n \in 1..Len(answered[i].doc) :
            /\ answered[i].doc[n].NoPlayer1 = t.no_player1
            /\ answered[i].doc[n].NoPlayer2 = t.no_player2
            /\ answered[i].doc[n].Name = t.name

\* C19: every team of every list run has stored has one of the statuses
\* Registered, Withdrawn, WithdrawnWithMedicalCert, Deleted, and a query of
\* its tournament for that very status was answered with the team.
C19_StatusIsQueryFilter ==
    \A d \in StoredDicts :
        \A no \in DOMAIN d :
            \A i \in 1..Len(d[no]) :
                /\ d[no][i].status \in {"Registered", "Withdrawn",
                                        "WithdrawnWithMedicalCert", "Deleted"}
                /\ AnsweredUnder(no, d[no][i].status, d[no][i])

\* a returned batch in which team a of tournament 11 is Deleted, after it
\* was answered as Registered and as Deleted
C19_Witness ==
    /\ op = "run"
    /\ pc = "done"
    /\ result.ok
    /\ AnsweredUnder(11, "Registered", BeachTeam(1, 2, "a", None, "Registered", None))
    /\ \E i \in 1..Len(result.value) :
        /\ 11 \in DOMAIN result.value[i].teams_by_tournament
        /\ result.value[i].teams_by_tournament[11]
                = <<BeachTeam(1, 2, "a", None, "Deleted", None)>>

\* the answer to the query of tournament no for status, <<>> when there is none
TeamAnswer(no, status) ==
    LET For(a) == a.req = Request("teams", no, status)
        hits == SelectSeq(answered, For)
    IN  IF hits = <<>> THEN <<>> ELSE hits[1].doc

\* the Registered and the Withdrawn query of tournament no were each
\* answered with one team, of different player pairs, and the other two
\* queries without a team
OneRegisteredOneWithdrawn(no) ==
    /\ Len(TeamAnswersOf(no)) = 4
    /\ Len(TeamAnswer(no, "Registered")) = 1
    /\ Len(TeamAnswer(no, "Withdrawn")) = 1
    /\ <<TeamAnswer(no, "Registered")[1].NoPlayer1,
          TeamAnswer(no, "Registered")[1].NoPlayer2>>
        # <<TeamAnswer(no, "Withdrawn")[1].NoPlayer1,
            TeamAnswer(no, "Withdrawn")[1].NoPlayer2>>
    /\ TeamAnswer(no, "WithdrawnWithMedicalCert") = <<>>
    /\ TeamAnswer(no, "Deleted") = <<>>

\* the answers to the event-detail queries of the run
DetailAnswers ==
    LET IsDetailAnswer(a) == a.req.kind = "detail"
    IN  SelectSeq(answered, IsDetailAnswer)

\* a run over one selected event whose detail lists several tournaments,
\* each of them answered as OneRegisteredOneWithdrawn
OneEventScenario ==
    /\ op = "run"
    /\ Len(events) = 1
    /\ Len(DetailAnswers) = 1
    /\ Len(DetailAnswers[1].doc.direct) >= 2
    /\ \A k \in 1..Len(DetailAnswers[1].doc.direct) :
        OneRegisteredOneWithdrawn(DetailAnswers[1].doc.direct[k].No.n)

\* C21: a run over one selected event with several tournaments, each with
\* one team answered as Registered, one of another pair as Withdrawn and none
\* under the other two statuses, returns exactly one snapshot, which lists
\* every tournament and maps each to exactly 2 teams.
C21_OneSnapshotTwoTeamsEach ==
    OneEventScenario =>
        /\ pc = "done"
        /\ result.ok
        /\ Len(result.value) = 1
        /\ result.value[1].event = events[1]
        /\ Len(result.value[1].tournaments) = Len(DetailAnswers[1].doc.direct)
        /\ \A k \in 1..Len(DetailAnswers[1].doc.direct) :
            LET no == DetailAnswers[1].doc.direct[k].No.n IN
            /\ result.value[1].tournaments[k].tournament_no = no
            /\ no \in DOMAIN result.value[1].teams_by_tournament
            /\ Len(result.value[1].teams_by_tournament[no]) = 2

\* the scenario has run to its end with the tournaments 11 and 12
C21_Witness ==
    /\ OneEventScenario
    /\ pc = "done"
    /\ result.ok
    /\ DOMAIN result.value[1].teams_by_tournament = {11, 12}
    /\ result.value[1].teams_by_tournament[12]
            = <<BeachTeam(1, 2, "a", None, "Registered", None),
                BeachTeam(3, 4, "b", None, "Withdrawn", None)>>

\* C30: in every state of a FIVBService the number of get_xml calls it has
\* made, over all the methods invoked on it, is at most
\* max_requests_per_run.
C30_CallsWithinCeiling == get_xml_calls <= max_requests_per_run

\* a service that has made as many calls as its ceiling allows, in more
\* than one method, and has had a further one refused
C30_Witness ==
    /\ max_requests_per_run >= 2
    /\ get_xml_calls = max_requests_per_run
    /\ Len(issued) < get_xml_calls
    /\ track_fails >= 1

\* the attempts get_xml has made for the request at hand
AttemptsMade == Len(SelectSeq(trace, LAMBDA e : e.ev \in {"ok", "fail"}))

\* C31: the request counter goes up by exactly one for each request-issuing
\* step, whatever the number of attempts the transport makes for it: in
\* every state, in the middle of the retries too, the counter is the number
\* of get_xml calls made plus the number of steps that were refused.
C31_OnePerLogicalRequest ==
    /\ _request_count = get_xml_calls + track_fails
    /\ pc \in {"gx_try", "gx_sleep", "gx_done"} =>
        /\ AttemptsMade <= max_attempts
        /\ Len(issued) >= 1

\* a run whose first event-detail request failed after all its attempts and
\* whose second one returned at the second attempt: three requests,
\* counter 3
C31_Witness ==
    /\ op = "run"
    /\ max_attempts = 2
    /\ pc = "gx_done"
    /\ xml_result.ok
    /\ AttemptsMade = 2
    /\ Len(failed) = 1
    /\ failed[1].kind = "detail"
    /\ Len(issued) = 3
    /\ _request_count = 3

\* the i-th request of the method was answered with a document
WasAnswered(i) == \E n \in 1..Len(answered) : answered[n].req = issued[i]

\* the tournaments the i-th request, an event-detail request, was answered with
TournamentsAnswered(i) ==
    LET a == SelectSeq(answered, LAMBDA x : x.req = issued[i])
    IN  IF a = <<>> THEN <<>> ELSE parse_event_tournaments(a[1].doc)

\* the event-detail request that the i-th request comes under
OwnerOf(i) ==
    CHOOSE j \in 1..i :
        IsDetail(issued[j]) /\ \A k \in (j + 1)..i : ~IsDetail(issued[k])

DetailRequestOf(e) == Request("detail", events[e].no, "None")

\* the request that run issues after its i-th, as far as it issues one
SuccessorOf(i) ==
    LET a == issued[i]
        d == OwnerOf(i)
        e == CHOOSE k \in 1..Len(events) : events[k].no = issued[d].no
        ts == TournamentsAnswered(d)
        j == CHOOSE k \in 1..Len(ts) : ts[k].tournament_no = a.no
        s == CHOOSE k \in 1..Len(STATUSES_TO_FETCH) : STATUSES_TO_FETCH[k] = a.status
    IN  IF a.kind = "list" THEN DetailRequestOf(1)
        ELSE IF a.kind = "detail"
            THEN IF ts # <<>>
                    THEN Request("teams", ts[1].tournament_no, "Registered")
                    ELSE DetailRequestOf(e + 1)
        ELSE IF WasAnswered(i) /\ s < Len(STATUSES_TO_FETCH)
            THEN Request("teams", a.no, STATUSES_TO_FETCH[s + 1])
        ELSE IF j < Len(ts)
            THEN Request("teams", ts[j + 1].tournament_no, "Registered")
        ELSE DetailRequestOf(e + 1)

\* C32: run issues its requests one after the other in a fixed order: the
\* event-list request first, then for each selected event in order its
\* event-detail request and after it the status queries of its tournaments,
\* tournament by tournament and status by status, before the event-detail
\* request of the next event; a request is issued only when every earlier
\* one has returned or raised, and the request that get_xml attempts or
\* waits for is the one issued last.
C32_RequestsInSequence ==
    op = "run" =>
        /\ issued # <<>> => issued[1] = Request("list", 0, "None")
        /\ \A i \in 1..(Len(issued) - 1) :
            /\ issued[i + 1] = SuccessorOf(i)
            /\ \E n \in 1..(Len(failed) + Len(answered)) :
                (failed \o [k \in 1..Len(answered) |-> answered[k].req])[n] = issued[i]
        /\ Len(issued) - (Len(failed) + Len(answered))
            = (IF pc \in {"gx_try", "gx_sleep", "gx_done"} THEN 1 ELSE 0)
        /\ pc \in {"gx_try", "gx_sleep", "gx_done"} => req = Last(issued)

\* a run in the wait before the retry of the first status query of the
\* second event, after the two tournaments of the first event, one of them
\* with a status query cut short
C32_Witness ==
    /\ op = "run"
    /\ pc = "gx_sleep"
    /\ Len(events) = 2
    /\ req = Request("teams", 21, "Registered")
    /\ Len(issued) = 9
    /\ issued[2] = Request("detail", 1, "None")
    /\ issued[3] = Request("teams", 11, "Registered")
    /\ issued[4] = Request("teams", 12, "Registered")
    /\ issued[7] = Request("teams", 12, "Deleted")
    /\ issued[8] = Request("detail", 2, "None")
    /\ Len(failed) = 1

\* the teams of the answers, each under the status of its query
RECURSIVE TeamsOfAnswers(_)
TeamsOfAnswers(as) ==
    IF as = <<>> THEN <<>>
    ELSE parse_teams(Head(as).doc, Head(as).req.status) \o TeamsOfAnswers(Tail(as))

\* the step stores teams as the list of tournament no: in the dict of the
\* event at work, in the snapshot it appends, or in the batch run returns
StoredNext(no, teams) ==
    \/ /\ no \in DOMAIN teams_by_tournament'
       /\ teams_by_tournament'[no] = teams
    \/ /\ snapshots' # <<>>
       /\ no \in DOMAIN Last(snapshots').teams_by_tournament
       /\ Last(snapshots').teams_by_tournament[no] = teams
    \/ /\ pc' = "done"
       /\ result'.ok
       /\ result'.value # <<>>
       /\ no \in DOMAIN Last(result'.value).teams_by_tournament
       /\ Last(result'.value).teams_by_tournament[no] = teams

\* C33: when a status query of fetch_teams_for_tournament ends with an
\* IndexError, no further status is queried for the tournament, and the
\* teams of the statuses answered before are deduplicated and returned, to
\* the caller or into run's dict, without an error; the interrupted query
\* is counted in the request counter and stays counted.
C33_IndexErrorCutsShort ==
    [][(TeamQueryFailed /\ xml_result.exc.type = "IndexError") =>
        LET no == tournament_no
            teams == dedupe_teams(TeamsOfAnswers(TeamAnswersOf(no)))
        IN  /\ Len(TeamRequestsOf(no)) = Len(TeamAnswersOf(no)) + 1
            /\ _request_count = get_xml_calls + track_fails
            /\ _request_count' = _request_count
            /\ ~(pc' = "ftt_track" /\ tournament_no' = no)
            /\ pc' = "done" => result'.ok
            /\ IF op = "run"
                THEN StoredNext(no, teams)
                ELSE pc' = "done" /\ result' = Returned(teams)]_vars

\* fetch_teams_for_tournament on a fresh service has returned the team of
\* the Registered answer after the Withdrawn query ended with the error:
\* two queries issued, counter 2
C33_Witness ==
    /\ op = "fetch_teams_for_tournament"
    /\ pc = "done"
    /\ issued = <<Request("teams", 11, "Registered"), Request("teams", 11, "Withdrawn")>>
    /\ failed = <<Request("teams", 11, "Withdrawn")>>
    /\ result = Returned(<<BeachTeam(1, 2, "a", None, "Registered", None)>>)
    /\ _request_count = 2

\* the step makes a tracked call
Tracks == track_calls' = track_calls + 1

\* C34: the request counter of a service never decreases and is never
\* reset; every tracked call, a failing one too, raises it by one; and once
\* a tracked call has failed for the ceiling, every later tracked call on
\* the service fails.
C34_ExhaustionAbsorbing ==
    [][/\ _request_count' >= _request_count
       /\ Tracks => _request_count' = _request_count + 1
       /\ (Tracks /\ track_fails >= 1) =>
            /\ track_fails' = track_fails + 1
            /\ get_xml_calls' = get_xml_calls]_vars

\* a service whose ceiling of at least 2 was used up and on which, in a
\* method invoked later, a third tracked call has failed: the counter is at
\* the ceiling plus 3
C34_Witness ==
    /\ max_requests_per_run >= 2
    /\ track_fails = 3
    /\ _request_count = max_requests_per_run + 3
    /\ get_xml_calls = max_requests_per_run
    /\ issued = <<>>
    /\ pc = "done"

\* the number of tournament references in the snapshots
RECURSIVE TournamentsIn(_)
TournamentsIn(snaps) ==
    IF snaps = <<>> THEN 0
    ELSE Len(Head(snaps).tournaments) + TournamentsIn(Tail(snaps))

\* run, the first method invoked on its service, has returned a batch; the
\* event-detail fetch of every selected event succeeded and no get_xml call
\* of the run raised
FreshRunCompleted ==
    /\ op = "run"
    /\ pc = "done"
    /\ result.ok
    /\ track_calls = Len(issued)
    /\ Len(detail_ok) = Len(events)
    /\ failed = <<>>

\* C35: when run on a fresh service has completed with E selected events,
\* all with a successful event-detail fetch and T tournament references in
\* total, and no status query was cut short, the request counter is
\* 1 + E + 4 * T.
C35_CounterAfterRun ==
    FreshRunCompleted =>
        /\ Len(result.value) = Len(events)
        /\ _request_count = 1 + Len(events) + 4 * TournamentsIn(result.value)

\* a completed run with two events and one tournament: counter 7
C35_Witness ==
    /\ FreshRunCompleted
    /\ Len(events) = 2
    /\ TournamentsIn(result.value) = 1
    /\ _request_count = 7

-----------------------------------------------------------------------------
(* Claims about successive runs on one FIVBService, checked under SpecRuns *)

\* C20: the budget is per run: whatever earlier invocations of run on the
\* same service have issued, an invocation has the full ceiling, so the
\* first tracked call it is refused comes after max_requests_per_run calls
\* of its own that were let through.
C20_FullCeilingEveryRun ==
    (op = "run" /\ budget_hit # NoHit) =>
        budget_hit.issued = max_requests_per_run

-----------------------------------------------------------------------------
(* Claims about termination, checked under SpecLive *)

\* C36: a get_xml call makes at most max_attempts attempts and
\* max_attempts - 1 waits and in the end returns or raises; a run in the end
\* is over, with a batch returned or an exception raised.
C36_CallsAndRunsEnd ==
    /\ [](/\ Len(AttemptsOf(trace)) <= max_attempts
          /\ Len(WaitsOf(trace)) <= max_attempts - 1
          /\ pc = "gx_done" => (xml_result.ok \/ xml_result.exc # NoExc)
          /\ pc = "done" => (result.ok \/ result.exc # NoExc))
    /\ (pc \in {"gx_try", "gx_sleep"}) ~> (pc = "gx_done")
    /\ (op = "run" /\ pc # "done") ~> (op = "run" /\ pc = "done")

\* a get_xml call of a run that has raised after two attempts and one wait
C36_Witness ==
    /\ op = "run"
    /\ max_attempts = 2
    /\ pc = "gx_done"
    /\ ~xml_result.ok
    /\ Len(AttemptsOf(trace)) = 2
    /\ Len(WaitsOf(trace)) = 1
    /\ req.kind = "teams"

-----------------------------------------------------------------------------
(* Claims about dedupe_teams, checked under SpecDedupe *)

\* the key of a team and the order of the statuses, as the claims word them
PlayerPair(t) == <<t.no_player1, t.no_player2>>

Outranks(s1, s2) ==
    LET order == <<"Registered", "Withdrawn", "WithdrawnWithMedicalCert", "Deleted">>
        pos(s) == CHOOSE i \in 1..4 : order[i] = s
    IN  pos(s1) > pos(s2)

InputWithPair(k) == {i \in 1..Len(team_list) : PlayerPair(team_list[i]) = k}
OutputWithPair(k) == {j \in 1..Len(deduped) : PlayerPair(deduped[j]) = k}

\* C9: for every key of the input exactly one entry is retained, and its
\* status is the highest-priority status among the input entries of that key
\* (Deleted > WithdrawnWithMedicalCert > Withdrawn > Registered).
C9_HighestPriorityRetained ==
    pc = "dd_done" =>
        \A i \in 1..Len(team_list) :
            LET k == PlayerPair(team_list[i]) IN
            /\ Cardinality(OutputWithPair(k)) = 1
            /\ \A j \in OutputWithPair(k) :
                /\ \E i2 \in InputWithPair(k) : team_list[i2].status = deduped[j].status
                /\ \A i2 \in InputWithPair(k) :
                    ~Outranks(team_list[i2].status, deduped[j].status)

\* a key entered first as Deleted, then as Registered, then as Withdrawn
C9_Witness ==
    /\ pc = "dd_done"
    /\ Len(team_list) = 3
    /\ Cardinality(InputWithPair(<<1, 2>>)) = 3
    /\ team_list[1].status = "Deleted"
    /\ team_list[2].status = "Registered"
    /\ team_list[3].status = "Withdrawn"
    /\ Len(deduped) = 1
    /\ deduped[1].status = "Deleted"

\* C10: an entry whose key occurs once in the input is in the output
\* unchanged, and every output entry is an element of the input.
C10_UniqueKeysKept ==
    pc = "dd_done" =>
        /\ \A i \in 1..Len(team_list) :
            Cardinality(InputWithPair(PlayerPair(team_list[i]))) = 1 =>
                \E j \in 1..Len(deduped) : deduped[j] = team_list[i]
        /\ \A j \in 1..Len(deduped) :
            \E i \in 1..Len(team_list) : deduped[j] = team_list[i]

\* three teams of three different keys, one of them with no player numbers
C10_Witness ==
    /\ pc = "dd_done"
    /\ Len(team_list) = 3
    /\ \A i \in 1..3 : Cardinality(InputWithPair(PlayerPair(team_list[i]))) = 1
    /\ \E i \in 1..3 : PlayerPair(team_list[i]) = <<None, None>>
    /\ \E i \in 1..3 : PlayerPair(team_list[i]) = <<None, 1>>
    /\ Len(deduped) = 3

AbsentId(t) == t.no_player1 = None \/ t.no_player2 = None

\* C12: teams with an absent player number are never merged with each
\* other: the output holds as many of them as the input.
C12_AbsentIdNeverMerged ==
    pc = "dd_done" =>
        Cardinality({j \in 1..Len(deduped) : AbsentId(deduped[j])})
            = Cardinality({i \in 1..Len(team_list) : AbsentId(team_list[i])})

\* C13: the key is the unordered pair: the input entries of the pairs (a, b)
\* and (b, a) together leave one entry in the output.
C13_UnorderedPairIsKey ==
    pc = "dd_done" =>
        \A i \in 1..Len(team_list) :
            LET k == PlayerPair(team_list[i])
                r == <<k[2], k[1]>>
            IN  Cardinality(OutputWithPair(k) \cup OutputWithPair(r)) = 1

\* the input entries of key k whose status no other entry of k outranks
TopOfPair(k) ==
    {i \in InputWithPair(k) :
        \A i2 \in InputWithPair(k) :
            ~Outranks(team_list[i2].status, team_list[i].status)}

Earliest(S) == CHOOSE i \in S : \A i2 \in S : i <= i2

\* C14: the entry retained for a key is the earliest input entry among those
\* of that key with the highest status: a later entry replaces only on a
\* strictly higher priority, so name, rank and country code are those of
\* that earliest entry.
C14_EarliestOfTopPriorityRetained ==
    pc = "dd_done" =>
        \A j \in 1..Len(deduped) :
            deduped[j] = team_list[Earliest(TopOfPair(PlayerPair(deduped[j])))]

\* one key entered as Withdrawn under name a, as Deleted under name b and as
\* Deleted under name a again: the Deleted record of name b is retained
C14_Witness ==
    /\ pc = "dd_done"
    /\ team_list = <<BeachTeam(1, 2, "a", None, "Withdrawn", None),
                     BeachTeam(1, 2, "b", None, "Deleted", None),
                     BeachTeam(1, 2, "a", None, "Deleted", None)>>
    /\ deduped = <<BeachTeam(1, 2, "b", None, "Deleted", None)>>


-----------------------------------------------------------------------------
(* Claims about the parsers, checked under SpecParse *)

ParsingTournaments == op = "parse_event_tournaments"
TournamentsParsed == ParsingTournaments /\ pc = "done"

\* what a strategy finds in the root
YieldOf(strategy) ==
    CASE strategy = "direct" -> DirectRefs(parse_root)
      [] strategy = "text" -> ContentTextRefs(parse_root)
      [] strategy = "attr" -> ContentAttrRefs(parse_root)

\* C22: the strategies are applied in the order direct, Content text,
\* Content attribute, each only when all before it found no record; the
\* function returns what the strategy applied last has found, and that is
\* the first strategy to find a record, or the third.
C22_StrategiesInFixedOrder ==
    ParsingTournaments =>
        LET order == <<"direct", "text", "attr">>
            n == Len(strategies)
        IN  /\ n <= 3
            /\ \A i \in 1..n : strategies[i] = order[i]
            /\ \A i \in 1..(n - 1) : YieldOf(order[i]) = <<>>
            /\ pc = "done" =>
                /\ n >= 1
                /\ result = Returned(YieldOf(order[n]))
                /\ result.value # <<>> \/ n = 3
                /\ result.value = parse_event_tournaments(parse_root)

\* records of a Content attribute returned after the Event nodes and the
\* Content texts had none
C22_Witness ==
    /\ TournamentsParsed
    /\ strategies = <<"direct", "text", "attr">>
    /\ Len(parse_root.direct) = 1
    /\ Len(parse_root.contents) = 2
    /\ Len(result.value) = 2
    /\ result.value[1].tournament_no = 7136

\* the node yields a tournament record: its No reads as a number
HasNumber(node) == node.No.text \in {"digits", "absent"}
NumberOf(node) == IF node.No.text = "digits" THEN node.No.n ELSE 0

NumberedNodes(nodes) == SelectSeq(nodes, HasNumber)

\* the text holds a document, white space around it or not
HoldsDocument(e) == e.text \in {<<"d">>, <<" ", "d">>, <<"d", " ">>}

NoDirectRecord == NumberedNodes(parse_root.direct) = <<>>

\* C23: when the Event nodes yield no record and the one Content element
\* holds a document with k >= 1 tournament records, exactly these k records
\* are returned, with their numbers and in their order.
C23_EmbeddedRecordsReturned ==
    (/\ TournamentsParsed
     /\ NoDirectRecord
     /\ Len(parse_root.contents) = 1
     /\ HoldsDocument(parse_root.contents[1])
     /\ NumberedNodes(parse_root.contents[1].nodes) # <<>>) =>
        LET records == NumberedNodes(parse_root.contents[1].nodes)
        IN  /\ result.ok
            /\ Len(result.value) = Len(records)
            /\ \A i \in 1..Len(records) :
                result.value[i].tournament_no = NumberOf(records[i])

\* the two records of a document found after white space in the Content
\* element, behind an Event node without a numbered tournament
C23_Witness ==
    /\ TournamentsParsed
    /\ parse_root.direct = <<RawTournamentNode(Garbage, "M")>>
    /\ parse_root.contents
            = <<Embedded(<<" ", "d">>, <<TournamentNode(8136, "0"),
                                         TournamentNode(8135, "1")>>)>>
    /\ strategies = <<"direct", "text">>
    /\ Len(result.value) = 2
    /\ result.value[1].tournament_no = 8136
    /\ result.value[2].tournament_no = 8135

\* the gender of a record, as the specification words the decoding
GenderAsSpecified(raw) ==
    IF raw = "0" THEN "M"
    ELSE IF raw = "1" THEN "W"
    ELSE raw

FromOneEmbeddedDocument ==
    /\ TournamentsParsed
    /\ strategies = <<"direct", "text">>
    /\ Len(parse_root.contents) = 1
    /\ Len(result.value) = Len(NumberedNodes(parse_root.contents[1].nodes))

\* C25: in records from an embedded Content document raw 1 is decoded as M
\* and raw 0 as W, as the repository's test of the Content strategy expects.
C25_EmbeddedGenderReversed ==
    FromOneEmbeddedDocument =>
        LET nodes == NumberedNodes(parse_root.contents[1].nodes)
        IN  \A i \in 1..Len(nodes) :
                /\ nodes[i].Gender = "1" => result.value[i].gender = "M"
                /\ nodes[i].Gender = "0" => result.value[i].gender = "W"

\* the text is neither blank nor a document
Malformed(e) == Strip(e.text) # <<>> /\ ~HoldsDocument(e)

\* the numbers of the records the documents among es hold, in order
RECURSIVE NumbersIn(_)
NumbersIn(es) ==
    IF es = <<>> THEN <<>>
    ELSE (IF HoldsDocument(Head(es))
            THEN [i \in 1..Len(NumberedNodes(Head(es).nodes)) |->
                    NumberOf(NumberedNodes(Head(es).nodes)[i])]
            ELSE <<>>)
         \o NumbersIn(Tail(es))

NumbersReturned == [i \in 1..Len(result.value) |-> result.value[i].tournament_no]

\* C26: parse_event_tournaments never raises; a malformed embedded
\* document is passed over: when the Event nodes yield no record, the
\* records of all documents among the Content texts are returned, those
\* behind a malformed text too, and when the texts yield none, the records
\* of all documents among the Content attributes.
C26_MalformedEmbeddedSwallowed ==
    ParsingTournaments =>
        /\ result.exc = NoExc
        /\ pc = "done" => result.ok
        /\ (pc = "done" /\ NoDirectRecord) =>
            IF NumbersIn(parse_root.contents) # <<>>
                THEN NumbersReturned = NumbersIn(parse_root.contents)
                ELSE NumbersReturned = NumbersIn(parse_root.attrs)

\* records returned from a document that stands behind a malformed text
C26_Witness ==
    /\ TournamentsParsed
    /\ Len(parse_root.contents) = 2
    /\ Malformed(parse_root.contents[1])
    /\ HoldsDocument(parse_root.contents[2])
    /\ strategies = <<"direct", "text">>
    /\ result.ok
    /\ Len(result.value) = 1
    /\ result.value[1].tournament_no = 8137

\* the Event node passes the validation of its fields
ValidEventNode(node) ==
    /\ node.No.text \in {"digits", "absent"}
    /\ node.StartDate.text = "date"
    /\ node.EndDate.text = "date"

\* C27: parse_event_list never fails on a response: it returns, in order,
\* the events of the nodes whose fields are valid, and drops the others.
C27_BadRecordDropped ==
    (op = "parse_event_list" /\ pc = "done") =>
        LET valid == SelectSeq(parse_root, ValidEventNode)
        IN  /\ result.ok
            /\ result.value =
                [i \in 1..Len(valid) |-> Event(NumberOf(valid[i]), valid[i].StartDate.n)]


-----------------------------------------------------------------------------
(* Claims about Storage.persist_snapshots, checked under SpecStore *)

\* persist_snapshots has returned, and the call before it was given the
\* same snapshots and run_date and returned too
SubmittedTwice ==
    /\ op = "persist_snapshots"
    /\ pc = "done"
    /\ result.ok
    /\ Len(past) >= 2
    /\ past[Len(past) - 1].ok
    /\ past[Len(past) - 1].arg = persist_arg

\* C28: persist_snapshots is idempotent for a run_date: a second
\* submission of the same batch leaves the rows of every table as they
\* were after the first, whatever the batch.
C28_ResubmissionIdempotent == SubmittedTwice => tables = before


\* C37: persist_snapshots writes the batch in one transaction: while it
\* works nothing of the batch is in the tables; when it has raised, the
\* tables hold what they held when it was called, no crawl run, event,
\* tournament, player, team or snapshot row of the batch; when it has
\* returned they hold the whole batch; and when it is over the connection,
\* if one was opened, is closed.
C37_OneTransaction ==
    op = "persist_snapshots" =>
        /\ pc \in {"ps_snap", "ps_team", "ps_commit"} =>
            /\ tables = before
            /\ con = "open"
        /\ pc = "done" =>
            /\ con # "open"
            /\ Last(past).at # "ps_begin" => con = "closed"
            /\ ~result.ok => tables = before
            /\ result.ok => tables = cur

\* a second call, with another batch, that raised when it had written the
\* rows of its event and was storing a team: the tables are those the first
\* call left, the connection is closed
C37_Witness ==
    /\ op = "persist_snapshots"
    /\ pc = "done"
    /\ Len(past) = 2
    /\ past[1].ok
    /\ past[1].arg # past[2].arg
    /\ ~past[2].ok
    /\ past[2].at = "ps_team"
    /\ ~result.ok
    /\ tables # NoRows
    /\ tables = before
    /\ con = "closed"

-----------------------------------------------------------------------------
(* Claims about the tcode endpoint, checked under SpecApi *)

\* _decode_tcode rejects the tcode: in upper case and without the white
\* space around it, it has fewer than 6 characters or begins with neither M
\* nor W
RejectedTcode ==
    LET code == Normalised(tcode)
    IN  Len(code) < 6 \/ code[1] \notin {"M", "W"}

\* the details of the endpoint that contain the word Invalid
MentionsInvalid(detail) == detail \in {"Invalid gender prefix in TCODE"}

\* C29: for every tcode that _decode_tcode rejects the endpoint answers 400
\* with a detail that contains "Invalid", and has not queried the database.
C29_RejectedTcodeAnswered400Invalid ==
    (op = "api_tcode_withdrawals" /\ pc = "done" /\ RejectedTcode) =>
        /\ response.status_code = 400
        /\ MentionsInvalid(response.detail)
        /\ queries = <<>>

====
